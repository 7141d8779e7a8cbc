------------------------------- MODULE IfcFile -------------------------------
(***************************************************************************)
(* The file interface of libtrap (ifc_file.c): an output interface that    *)
(* collects messages in a buffer and writes full buffers (containers) to a *)
(* file, changing the file with the time, with its size or with the data   *)
(* format, and an input interface that reads a list of such files.         *)
(* One thread uses the interface: it has no lock.                          *)
(***************************************************************************)
EXTENDS Integers, Sequences, FiniteSets, FiniteSetsExt, SequencesExt

CONSTANTS
  FileConfigs,   \* parameters of the interface: [append, bySize, byTime |-> BOOLEAN]
  IndexMod,      \* one more than file_index can hold (2^16)
  Stamp,         \* the local time, as names show it, of each period of the clock
  PerFile,       \* containers after which a file is large enough
  PerBuffer,     \* messages that fit in the buffer
  FileFormats, JsonFormats, Refused,  \* formats that are set; of type JSON; not required
  Existing,      \* names of files that are already there
  MaxOffers, MaxChanges, MaxFaults    \* bounds of the model

ASSUME FileAssumption ==
  /\ \A c \in FileConfigs : {c.append, c.bySize, c.byTime} \subseteq BOOLEAN
  /\ IndexMod \in Nat \ {0, 1} /\ PerFile \in Nat \ {0} /\ PerBuffer \in Nat \ {0}
  /\ JsonFormats \cup Refused \subseteq FileFormats
  /\ {MaxOffers, MaxChanges, MaxFaults} \subseteq Nat

VARIABLES
  config,    \* file_change_size, file_change_time and mode
  clock,     \* the period the time is in
  file,      \* fd, filename, file_index, create_time, neg_initialized, and the disk
  buffer, finished,   \* messages in the buffer; it waits to be written
  format,    \* the format set on the output interface
  offered, acked,  \* messages given to trap_send; those that returned TRAP_E_OK
  bounds,    \* format changes and faults still allowed
  rd         \* the input interface, which reads the files afterwards

writerVars == <<config, clock, file, buffer, finished, format, offered, acked, bounds>>
fileVars == <<writerVars, rd>>

NoFormat == "none"
NoSuffix == -1
Block(ms) == [kind |-> "block", fmt |-> NoFormat, msgs |-> ms]
HelloOf(f) == [kind |-> "hello", fmt |-> f, msgs |-> <<>>]
Torn == [kind |-> "torn", fmt |-> NoFormat, msgs |-> <<>>]

-----------------------------------------------------------------------------
(* Files.  "ok" tells whether the calls made so far have succeeded; "names" *)
(* is the files this interface has opened, in that order; "failures" counts *)
(* the writes that failed; "reused" notes that a file of its own was opened *)
(* again, and so emptied.                                                   *)

(* create_next_filename.  In append mode the first suffix that is free is   *)
(* taken; the last one never is, and that the index wraps is noticed.       *)
NextName(f, fault) ==
  LET g == [f EXCEPT !.created = clock]
      now == IF config.byTime THEN Stamp[clock] ELSE 0
      free == {k \in f.index .. IndexMod - 2 : <<now, k>> \notin DOMAIN f.disk}
  IN  CASE fault = "name" -> [g EXCEPT !.ok = FALSE]
        [] fault # "name" /\ config.append /\ free = {} ->
             [g EXCEPT !.ok = FALSE, !.index = 0]
        [] fault # "name" /\ config.append /\ free # {} ->
             [g EXCEPT !.name = <<now, Min(free)>>, !.index = Min(free) + 1]
        [] fault # "name" /\ ~config.append /\ config.bySize ->
             [g EXCEPT !.name = <<now, f.index>>, !.index = (f.index + 1) % IndexMod]
        [] OTHER -> [g EXCEPT !.name = <<now, NoSuffix>>]

(* The files without one that is opened again.                              *)
Others(names, name) ==
  IF name \notin ToSet(names) THEN names
  ELSE RemoveAt(names, CHOOSE i \in DOMAIN names : names[i] = name)

(* switch_file: fopen creates the file, or empties it.                      *)
Switched(f, fault) ==
  LET g == [f EXCEPT !.open = FALSE, !.neg = FALSE]
  IN  IF fault = "open" THEN [g EXCEPT !.ok = FALSE]
      ELSE [g EXCEPT !.open = TRUE,
                     !.disk = [n \in DOMAIN f.disk \cup {f.name} |->
                                 IF n = f.name THEN <<>> ELSE f.disk[n]],
                     !.names = Append(Others(f.names, f.name), f.name),
                     !.reused = @ \/ f.name \in ToSet(f.names)]

NextFile(f, fault) ==
  LET g == NextName(f, fault) IN IF g.ok THEN Switched(g, fault) ELSE g

WithEntry(f, entry) == [f EXCEPT !.disk[f.name] = Append(@, entry)]
Blocks(entries) == Len(SelectSeq(entries, LAMBDA e : e.kind # "hello"))

(* The two parts of file_write_buffer that change the file.                 *)
Rotated(f, fault) ==
  LET g == IF f.ok /\ config.byTime /\ clock > f.created
             THEN NextFile([f EXCEPT !.index = 0], fault) ELSE f
  IN  IF g.ok /\ config.bySize /\ Blocks(g.disk[g.name]) >= PerFile
        THEN NextFile(g, fault) ELSE g

(* The negotiation of a file: its hello message.                            *)
Announced(f, fault) ==
  CASE ~f.ok \/ f.neg -> f
    [] f.ok /\ ~f.neg /\ (format = NoFormat \/ fault = "hello") -> [f EXCEPT !.ok = FALSE]
    [] OTHER -> WithEntry([f EXCEPT !.neg = TRUE], HelloOf(format))

(* file_write_buffer.                                                       *)
Buffered(ms, fault) ==
  LET f == Announced(Rotated([file EXCEPT !.ok = file.open], fault), fault)
      g == CASE ~f.ok -> f
             [] f.ok /\ fault = "write" -> [WithEntry(f, Torn) EXCEPT !.ok = FALSE]
             [] OTHER -> WithEntry(f, Block(ms))
  IN  IF g.ok THEN g ELSE [g EXCEPT !.failures = @ + 1]

Faults == {"none"} \cup IF bounds.faults > 0 THEN {"name", "open", "hello", "write"} ELSE {}
Spent(fault) == bounds' = IF fault = "none" THEN bounds
                          ELSE [bounds EXCEPT !.faults = @ - 1]

-----------------------------------------------------------------------------
(* The output interface.                                                   *)

NoFile == [open |-> FALSE, name |-> <<0, NoSuffix>>, neg |-> FALSE, index |-> 0, created |-> 1,
           ok |-> TRUE, disk |-> [n \in Existing |-> <<Block(<<>>)>>], names |-> <<>>,
           failures |-> 0, reused |-> FALSE]

NothingRead == [on |-> FALSE, file |-> 1, pos |-> 1, neg |-> FALSE, fmt |-> NoFormat,
                got |-> <<>>, state |-> "ok", ended |-> FALSE]

(* create_file_send_ifc.                                                    *)
FileInit ==
  /\ config \in FileConfigs /\ clock = 1
  /\ file = NextFile(NoFile, "none") /\ file.ok
  /\ buffer = <<>> /\ finished = FALSE
  /\ format \in {NoFormat} \cup FileFormats
  /\ offered = 0 /\ acked = <<>>
  /\ bounds = [changes |-> MaxChanges, faults |-> MaxFaults]
  /\ rd = NothingRead

Time == /\ clock < Len(Stamp) /\ clock' = clock + 1
        /\ UNCHANGED <<config, file, buffer, finished, format, offered, acked, bounds, rd>>

(* file_send of the next message, with buffering switched on or off.        *)
(* A buffer that an earlier call could not write is written first, and then *)
(* the message of this call is not put into it.                             *)
FileSendBug(fault, bufferswitch) ==                      \* not inserted after a full buffer
  LET m == [id |-> offered + 1, fmt |-> format]
      fits == ~finished /\ Len(buffer) < PerBuffer
      ms == IF fits THEN Append(buffer, m) ELSE buffer
      f == Buffered(ms, fault)
      writes == finished \/ ~fits \/ ~bufferswitch
  IN  /\ offered < MaxOffers /\ offered' = offered + 1
      /\ IF ~writes
           THEN /\ fault = "none" /\ buffer' = ms /\ UNCHANGED <<file, finished>>
                /\ acked' = Append(acked, m.id)
           ELSE /\ file' = f /\ finished' = ~f.ok
                /\ buffer' = IF f.ok THEN <<>> ELSE ms
                /\ acked' = IF f.ok THEN Append(acked, m.id) ELSE acked
      /\ Spent(fault)
      /\ UNCHANGED <<config, clock, format, rd>>

FileSend(fault, bufferswitch) ==
  LET m == [id |-> offered + 1, fmt |-> format]
      fits == ~finished /\ Len(buffer) < PerBuffer
      reinsert == ~finished /\ ~fits
      ms == IF fits THEN Append(buffer, m) ELSE buffer
      f == Buffered(ms, fault)
      writes == finished \/ reinsert \/ ~bufferswitch
  IN  /\ offered < MaxOffers /\ offered' = offered + 1
      /\ IF ~writes
           THEN /\ fault = "none" /\ buffer' = ms /\ UNCHANGED <<file, finished>>
                /\ acked' = Append(acked, m.id)
           ELSE /\ file' = f /\ finished' = ~f.ok
                /\ buffer' = CASE ~f.ok -> ms
                               [] f.ok /\ reinsert -> <<m>>
                               [] OTHER -> <<>>
                /\ acked' = IF f.ok THEN Append(acked, m.id) ELSE acked
      /\ Spent(fault)
      /\ UNCHANGED <<config, clock, format, rd>>

Flushed(fault) ==
  IF buffer = <<>>
    THEN UNCHANGED <<file, buffer, finished>>
    ELSE LET f == Buffered(buffer, fault)
         IN  /\ file' = f /\ finished' = ~f.ok
             /\ buffer' = IF f.ok THEN <<>> ELSE buffer

(* file_flush (which without a format fails as often as it is called: no    *)
(* more than MaxOffers failures are followed).                              *)
FileFlush(fault) ==
  /\ buffer # <<>> /\ file.failures < MaxOffers
  /\ Flushed(fault) /\ Spent(fault)
  /\ UNCHANGED <<config, clock, format, offered, acked, rd>>

(* trap_ctx_vset_data_fmt: disconn_clients is switch_file_wrapper.  The     *)
(* messages in the buffer stay there, and go to the new file.               *)
FileSetFormat(f, fault) ==
  /\ bounds.changes > 0
  /\ bounds' = [bounds EXCEPT !.changes = @ - 1,
                              !.faults = IF fault = "none" THEN @ ELSE @ - 1]
  /\ file' = IF format = NoFormat THEN file ELSE NextFile([file EXCEPT !.ok = TRUE], fault)
  /\ format' = f
  /\ UNCHANGED <<config, clock, buffer, finished, offered, acked, rd>>

(* trap_finalize: the buffer is flushed and the file closed.  Then a module *)
(* reads the files.                                                         *)
FileFinalize ==
  /\ ~rd.on /\ Flushed("none")
  /\ rd' = [rd EXCEPT !.on = TRUE]
  /\ UNCHANGED <<config, clock, format, offered, acked, bounds>>

-----------------------------------------------------------------------------
(* The input interface: file_recv, one step for each file it looks into.    *)

Entries == file.disk[file.names[rd.file]]

(* input_ifc_negotiation and the switch over its result.  A JSON format     *)
(* that differs from the last is none of the cases, so the call reads a     *)
(* container, and the next one negotiates again.                            *)
ReadHello ==
  /\ rd.on /\ rd.state = "ok" /\ ~rd.ended /\ ~rd.neg
  /\ rd' =
       IF rd.pos > Len(Entries) THEN [rd EXCEPT !.state = "failed"]
       ELSE LET h == Entries[rd.pos].fmt
                changed == h \in JsonFormats /\ rd.fmt \notin {NoFormat, h}
            IN  CASE Entries[rd.pos].kind # "hello" -> [rd EXCEPT !.state = "confused"]
                  [] Entries[rd.pos].kind = "hello" /\ h \in Refused ->
                       [rd EXCEPT !.state = "mismatch", !.pos = @ + 1]
                  [] Entries[rd.pos].kind = "hello" /\ changed ->
                       [rd EXCEPT !.state = "unagreed", !.pos = @ + 1, !.fmt = h]
                  [] OTHER -> [rd EXCEPT !.neg = TRUE, !.pos = @ + 1, !.fmt = h]
  /\ UNCHANGED writerVars

(* A container, whose length and bytes are read.  After part of one, what   *)
(* is read is not followed.                                                 *)
ReadBlock ==
  /\ rd.on /\ ~rd.ended /\ rd.pos <= Len(Entries)
  /\ \/ rd.state = "ok" /\ rd.neg
     \/ rd.state = "unagreed"
  /\ rd' = IF Entries[rd.pos].kind # "block" THEN [rd EXCEPT !.state = "confused"]
           ELSE [rd EXCEPT !.pos = @ + 1, !.got = @ \o Entries[rd.pos].msgs,
                           !.state = "ok"]
  /\ UNCHANGED writerVars

ReadEndBug ==                                            \* the next file is taken to be negotiated
  /\ rd.on /\ ~rd.ended /\ rd.pos > Len(Entries)
  /\ \/ rd.state = "ok" /\ rd.neg
     \/ rd.state = "unagreed"
  /\ rd' = IF rd.file = Len(file.names) THEN [rd EXCEPT !.ended = TRUE]
           ELSE [rd EXCEPT !.file = @ + 1, !.pos = 1, !.state = "ok"]
  /\ UNCHANGED writerVars

(* The end of a file: the next one, or after the last the empty message.    *)
ReadEnd ==
  /\ rd.on /\ ~rd.ended /\ rd.pos > Len(Entries)
  /\ \/ rd.state = "ok" /\ rd.neg
     \/ rd.state = "unagreed"
  /\ rd' = IF rd.file = Len(file.names) THEN [rd EXCEPT !.ended = TRUE]
           ELSE [rd EXCEPT !.file = @ + 1, !.pos = 1, !.neg = FALSE, !.state = "ok"]
  /\ UNCHANGED writerVars

-----------------------------------------------------------------------------
FileWrite ==
  /\ ~rd.on
  /\ \/ Time
     \/ \E fault \in Faults :
          \/ \E b \in BOOLEAN : FileSend(fault, b)
          \/ FileFlush(fault)
          \/ \E f \in FileFormats : FileSetFormat(f, fault)

FileNext == FileWrite \/ FileFinalize \/ ReadHello \/ ReadBlock \/ ReadEnd

FileSpec == FileInit /\ [][FileNext]_fileVars

-----------------------------------------------------------------------------
EntryMsgs(entries) == [i \in DOMAIN entries |-> entries[i].msgs]
FileMsgs(f) == [i \in DOMAIN f.names |-> FlattenSeq(EntryMsgs(f.disk[f.names[i]]))]
OnDisk == FlattenSeq(FileMsgs(file))
MsgIds(ms) == [i \in DOMAIN ms |-> ms[i].id]

(* Whatever changes of files the time, the size and the formats bring, the  *)
(* files in their order, and then the buffer, hold every message that       *)
(* trap_send has accepted, once and in order.  Each write that fails costs  *)
(* at most one message: the one given to the call that repeats it.  Only a  *)
(* file that is opened a second time loses its messages, and in append mode *)
(* none is.                                                                 *)
Archive ==
  LET ids == MsgIds(OnDisk \o buffer)
  IN  /\ \A i \in 1 .. Len(ids) - 1 : ids[i] < ids[i + 1]
      /\ file.reused => ~config.append
      /\ ~file.reused => Cardinality(ToSet(acked) \ ToSet(ids)) <= file.failures

(* What is read back is what was written, in order, and after the last file *)
(* all of it, unless a write was left unfinished: a reader that begins each *)
(* file anew never takes a hello message for a container.                   *)
ReadBack ==
  /\ IsPrefix(rd.got, OnDisk)
  /\ rd.state = "confused" => file.failures > 0 \/ \E f \in JsonFormats : rd.fmt = f
  /\ rd.ended => rd.got = OnDisk

-----------------------------------------------------------------------------
(* The inductive invariant behind both (see InterfaceProofs).               *)
AnyFormat == {NoFormat} \cup FileFormats
Messages == [id : Nat, fmt : AnyFormat]
FileEntries == [kind : {"hello", "block", "torn"}, fmt : AnyFormat, msgs : Seq(Messages)]

(* Each file begins with its hello message and has no other; only an open   *)
(* file, the last one, is written, and what was torn has been counted.      *)
FileRight(f) ==
  /\ {f.open, f.neg, f.ok, f.reused} \subseteq BOOLEAN
  /\ f.index \in Nat /\ f.failures \in Nat
  /\ f.names \in Seq(DOMAIN f.disk) /\ IsInjective(f.names)
  /\ f.open => f.names # <<>> /\ f.name = Last(f.names)
  /\ f.open => (f.neg <=> f.disk[f.name] # <<>>)
  /\ f.reused => ~config.append
  /\ \A n \in ToSet(f.names) :
       /\ f.disk[n] \in Seq(FileEntries)
       /\ \A j \in DOMAIN f.disk[n] :
            /\ f.disk[n][j].kind = "hello" <=> j = 1
            /\ f.disk[n][j].kind # "block" => f.disk[n][j].msgs = <<>>
            /\ f.disk[n][j].kind = "torn" => f.failures > 0

FileTypeOK ==
  /\ config \in FileConfigs /\ buffer \in Seq(Messages) /\ finished \in BOOLEAN
  /\ format \in AnyFormat /\ offered \in Nat /\ acked \in Seq(1 .. offered)
  /\ DOMAIN file = DOMAIN NoFile /\ FileRight(file) /\ file.names # <<>>

Ascending(ms) == \A i, j \in DOMAIN ms : i < j => ms[i].id < ms[j].id

IdsIn(ms) == {ms[i].id : i \in DOMAIN ms}

Unwritten == ToSet(acked) \ IdsIn(OnDisk \o buffer)

(* What a write that failed has cost is counted beforehand.                 *)
MessagesKept ==
  /\ Ascending(OnDisk \o buffer) /\ \A k \in IdsIn(OnDisk \o buffer) : k <= offered
  /\ ~file.reused => Cardinality(Unwritten) + (IF finished THEN 1 ELSE 0) <= file.failures

(* The reader has what is before its place; where it may be.                *)
ReadSoFar ==
  FlattenSeq(SubSeq(FileMsgs(file), 1, rd.file - 1))
    \o FlattenSeq(SubSeq(EntryMsgs(Entries), 1, rd.pos - 1))

ReaderRight ==
  /\ rd.file \in DOMAIN file.names /\ rd.pos \in 1 .. Len(Entries) + 1
  /\ rd.got = ReadSoFar
  /\ (rd.state = "ok" /\ rd.neg) \/ rd.state = "unagreed" => rd.pos > 1
  /\ rd.state = "unagreed" \/ (rd.state = "ok" /\ ~rd.neg /\ rd.pos > 1) => rd.fmt \in JsonFormats
  /\ rd.state = "confused" => file.failures > 0 \/ rd.fmt \in JsonFormats
  /\ rd.ended => rd.file = Len(file.names) /\ rd.pos = Len(Entries) + 1

ReaderTypeOK == DOMAIN rd = DOMAIN NothingRead /\ {rd.on, rd.neg, rd.ended} \subseteq BOOLEAN

FileInv ==
  /\ FileTypeOK /\ MessagesKept /\ ReaderTypeOK
  /\ IF rd.on THEN ReaderRight ELSE rd = NothingRead
=============================================================================
