-------------------------- MODULE IpPrefixSearch --------------------------
(***************************************************************************)
(* The IP prefix search of UniRec (src/unirec/ip_prefix_search.c) and its  *)
(* Python counterpart (src/pycommon/ip_prefix_search.py).  A list of       *)
(* networks, possibly nested, is turned into a sorted list of disjoint     *)
(* intervals, each with the data of all networks around it; an address is  *)
(* then found by a binary search.  IPv4 and IPv6 differ only in the width  *)
(* of an address, here Bits.  The data of a network are its number.        *)
(***************************************************************************)
EXTENDS Integers, SequencesExt, FiniteSetsExt

CONSTANTS Bits,            \* width of an address
          MaxNetworks      \* bound: networks of one context

ASSUME PrefixAssumption == Bits \in Nat /\ MaxNetworks \in Nat

VARIABLES
  library,     \* which of the two builds the context: "c" or "python"
  networks,    \* networks folded in so far, in the order the sort leaves
  intervals,   \* interval_list: [low, high, data]
  cursor,      \* C: position of conductor; Python: hop
  freed        \* data that ipps_destroy passed to free, in order

prefixVars == <<library, networks, intervals, cursor, freed>>

\* Addresses of as many bits.
TwoTo[bits \in 0 .. Bits] == IF bits = 0 THEN 1 ELSE 2 * TwoTo[bits - 1]

Addresses == 0 .. TwoTo[Bits] - 1

\* mask_ipv6 and fill_interval_by_network: first and last address of a
\* network given by any address of it and the length of its prefix.
NetworkOf(addr, mask) ==
  LET size == TwoTo[Bits - mask]
      low  == addr - (addr % size)
  IN  [low |-> low, high |-> low + size - 1]

AllNetworks == {NetworkOf(addr, mask) : addr \in Addresses, mask \in 0 .. Bits}

\* cmp_net_v4 and cmp_net_v6: by address, the greater network first.
InOrder(m, n) == m.low < n.low \/ (m.low = n.low /\ m.high >= n.high)

\* The networks that may come next out of the sorted array.
Upcoming == {n \in AllNetworks : networks = <<>> \/ InOrder(Last(networks), n)}

Interval(low, high, data) == [low |-> low, high |-> high, data |-> data]

\* The data of the network that is being folded in.
NewData == Len(networks) + 1

\* The interval at position i is replaced by others.
Replaced(i, others) ==
  SubSeq(intervals, 1, i - 1) \o others \o SubSeq(intervals, i + 1, Len(intervals))

------------------------------------------------------------------------------
\* init_context: one action for every way a network can lie.

\* The while loop moves the conductor to the first interval that does not end
\* before the network; behind the last one the conductor is NULL.
Conductor(n) ==
  LET reached == {j \in cursor .. Len(intervals) : intervals[j].high >= n.low}
  IN  IF reached = {} THEN Len(intervals) + 1 ELSE Min(reached)

ToInitial(n) == intervals = <<>>
ToAppend(n)  == intervals # <<>> /\ Conductor(n) > Len(intervals)
Meets(n)     == Conductor(n) \in DOMAIN intervals
ToInside(n)  == Meets(n) /\ LET con == intervals[Conductor(n)]
                            IN  con.low < n.low /\ n.high < con.high
ToEnd(n)     == Meets(n) /\ LET con == intervals[Conductor(n)]
                            IN  con.low < n.low /\ n.high = con.high
ToStart(n)   == Meets(n) /\ LET con == intervals[Conductor(n)]
                            IN  con.low = n.low /\ n.high < con.high
ToSame(n)    == Meets(n) /\ LET con == intervals[Conductor(n)]
                            IN  con.low = n.low /\ n.high = con.high

Taken(n) == /\ library = "c"
            /\ freed = <<>>
            /\ Len(networks) < MaxNetworks
            /\ networks' = Append(networks, n)
            /\ UNCHANGED <<library, freed>>

AppendInterval(n) ==
  /\ ToInitial(n) \/ ToAppend(n)
  /\ Taken(n)
  /\ intervals' = Append(intervals, Interval(n.low, n.high, <<NewData>>))
  /\ cursor' = Len(intervals) + 1

\* Mutant: the conductor goes on to the last of the three pieces.
SplitInThreeBug(n) ==
  /\ ToInside(n)
  /\ Taken(n)
  /\ LET i == Conductor(n)   con == intervals[Conductor(n)]
     IN  /\ intervals' = Replaced(i, << Interval(con.low, n.low - 1, con.data),
                                        Interval(n.low, n.high, Append(con.data, NewData)),
                                        Interval(n.high + 1, con.high, con.data) >>)
         /\ cursor' = i + 2

SplitInThree(n) ==
  /\ ToInside(n)
  /\ Taken(n)
  /\ LET i == Conductor(n)   con == intervals[Conductor(n)]
     IN  /\ intervals' = Replaced(i, << Interval(con.low, n.low - 1, con.data),
                                        Interval(n.low, n.high, Append(con.data, NewData)),
                                        Interval(n.high + 1, con.high, con.data) >>)
         /\ cursor' = i

CutEnd(n) ==
  /\ ToEnd(n)
  /\ Taken(n)
  /\ LET i == Conductor(n)   con == intervals[Conductor(n)]
     IN  /\ intervals' = Replaced(i, << Interval(con.low, n.low - 1, con.data),
                                        Interval(n.low, con.high, Append(con.data, NewData)) >>)
         /\ cursor' = i

CutStart(n) ==
  /\ ToStart(n)
  /\ Taken(n)
  /\ LET i == Conductor(n)   con == intervals[Conductor(n)]
     IN  /\ intervals' = Replaced(i, << Interval(con.low, n.high, Append(con.data, NewData)),
                                        Interval(n.high + 1, con.high, con.data) >>)
         /\ cursor' = i

AddToSame(n) ==
  /\ ToSame(n)
  /\ Taken(n)
  /\ LET i == Conductor(n)
     IN  /\ intervals' = [intervals EXCEPT ![i].data = Append(@, NewData)]
         /\ cursor' = i

FoldNetwork == \E n \in Upcoming : \/ AppendInterval(n)
                                   \/ SplitInThree(n)
                                   \/ CutEnd(n)
                                   \/ CutStart(n)
                                   \/ AddToSame(n)

\* ipps_search: binary search by the bounds of the intervals.
Bounds == (0 .. Len(intervals)) \X (-1 .. Len(intervals) - 1)

Search(ip) ==
  LET find[bounds \in Bounds] ==
        LET first  == bounds[1]   last == bounds[2]
            middle == (first + last) \div 2
            it     == intervals[middle + 1]
        IN  IF first > last THEN <<>>
            ELSE IF it.low <= ip /\ ip <= it.high THEN it.data
            ELSE IF it.high > ip THEN find[<<first, middle - 1>>]
            ELSE find[<<middle + 1, last>>]
  IN  find[<<0, Len(intervals) - 1>>]

\* free_data: the intervals share the data; what the collector has seen is not
\* freed again.
FreeData(collector, data) ==
  LET seen[k \in 0 .. Len(data)] ==
        IF k = 0 THEN collector
        ELSE IF Contains(seen[k - 1], data[k]) THEN seen[k - 1]
        ELSE Append(seen[k - 1], data[k])
  IN  seen[Len(data)]

\* The loops of ipps_destroy, as in destroy_list: one interval after the other.
DestroyList ==
  LET seen[i \in 0 .. Len(intervals)] ==
        IF i = 0 THEN <<>> ELSE FreeData(seen[i - 1], intervals[i].data)
  IN  seen[Len(intervals)]

\* ipps_destroy.
IppsDestroy ==
  /\ library = "c"
  /\ intervals # <<>>
  /\ freed' = DestroyList
  /\ intervals' = <<>>
  /\ UNCHANGED <<library, networks, cursor>>

------------------------------------------------------------------------------
\* IPPSContext.split_overlaps_intervals of the Python module.

\* inte.isOverlap(interval) for the intervals from hop on; the first that
\* overlaps is taken, 0 when there is none (the else of the for).
Overlapped(n) ==
  LET over == {j \in cursor .. Len(intervals) :
                 intervals[j].low <= n.high /\ n.low <= intervals[j].high}
  IN  IF over = {} THEN 0 ELSE Min(over)

\* The pieces that take the place of inte.
Pieces(inte, n) ==
  LET before == Interval(inte.low, n.low - 1, inte.data)
      both   == Interval(n.low, n.high, inte.data \o <<NewData>>)
      after  == Interval(n.high + 1, inte.high, inte.data)
  IN  (IF inte.low < n.low THEN <<before>> ELSE <<>>)
      \o <<both>>
      \o (IF n.high < inte.high THEN <<after>> ELSE <<>>)

\* A network that sticks out of the interval it meets makes the call fail with a
\* TypeError.
Forbidden(inte, n) == n.low < inte.low \/ n.high > inte.high

SplitOverlaps(n) ==
  /\ library = "python"
  /\ Len(networks) < MaxNetworks
  /\ networks' = Append(networks, n)
  /\ LET i == Overlapped(n)
     IN  IF i = 0
         THEN /\ intervals' = Append(intervals, Interval(n.low, n.high, <<NewData>>))
              /\ cursor' = IF intervals = <<>> THEN 1 ELSE cursor + 1
         ELSE /\ ~ Forbidden(intervals[i], n)
              /\ intervals' = Replaced(i, Pieces(intervals[i], n))
              /\ cursor' = IF intervals[i].low < n.low THEN cursor + 1 ELSE cursor
  /\ UNCHANGED <<library, freed>>

\* ip_search.
PySearch(ip) ==
  LET find[bounds \in Bounds] ==
        LET first  == bounds[1]   last == bounds[2]
            middle == (first + last) \div 2
            it     == intervals[middle + 1]
        IN  IF first > last THEN <<>>
            ELSE IF ip < it.low THEN find[<<first, middle - 1>>]
            ELSE IF ip > it.high THEN find[<<middle + 1, last>>]
            ELSE it.data
  IN  find[<<0, Len(intervals) - 1>>]

------------------------------------------------------------------------------
PrefixInit ==
  /\ library \in {"c", "python"}
  /\ networks = <<>>
  /\ intervals = <<>>
  /\ cursor = 1
  /\ freed = <<>>

PrefixNext ==
  \/ FoldNetwork
  \/ \E n \in Upcoming : SplitOverlaps(n)
  \/ IppsDestroy

PrefixSpec == PrefixInit /\ [][PrefixNext]_prefixVars

\* The data an address should lead to: those of the networks around it, the
\* greater network first.
Around(ip) == {k \in DOMAIN networks : networks[k].low <= ip /\ ip <= networks[k].high}

Enumerates(data, S) == /\ ToSet(data) = S
                       /\ \A i, j \in DOMAIN data : i < j => data[i] < data[j]

Expected(data, ip) == Enumerates(data, Around(ip))

AllFreed == ToSet(freed) = DOMAIN networks /\ IsInjective(freed)

\* The search finds for every address the data of exactly the networks the
\* address lies in, each once, whatever networks are nested in, next to or equal
\* to each other; no network from the sorted array meets a case the construction
\* refuses; and destroying the context frees the data of every network exactly
\* once although the intervals share them.
PrefixesFound ==
  /\ freed = <<>> => \A ip \in Addresses :
       Expected(IF library = "c" THEN Search(ip) ELSE PySearch(ip), ip)
  /\ freed # <<>> => AllFreed
  /\ (library = "c" /\ freed = <<>>) => \A n \in Upcoming :
       ToInitial(n) \/ ToAppend(n) \/ ToInside(n) \/ ToEnd(n) \/ ToStart(n) \/ ToSame(n)
  /\ library = "python" => \A n \in Upcoming :
       Overlapped(n) # 0 => ~ Forbidden(intervals[Overlapped(n)], n)

------------------------------------------------------------------------------
\* The inductive invariant behind it (see UniRecProofs).  The intervals are in
\* order and lead each of their addresses, and no other, to its data; an interval
\* ends where a network ends or before one begins; and those before the cursor
\* end before the network folded in last.
Intervals == [low : Int, high : Int, data : Seq(Nat)]

PrefixTypeOK ==
  /\ library \in {"c", "python"} /\ networks \in Seq(AllNetworks)
  /\ intervals \in Seq(Intervals)
  /\ cursor \in Nat \ {0} /\ freed \in Seq(Nat)

Leads(it, ip) == it.low <= ip /\ ip <= it.high

InOrderAndRight ==
  /\ \A i, j \in DOMAIN intervals : i < j => intervals[i].high < intervals[j].low
  /\ \A i \in DOMAIN intervals :
       /\ intervals[i].low <= intervals[i].high /\ intervals[i].data # <<>>
       /\ \A ip \in intervals[i].low .. intervals[i].high : Expected(intervals[i].data, ip)

Covered ==
  \A k \in DOMAIN networks : \A ip \in networks[k].low .. networks[k].high :
    \E i \in DOMAIN intervals : Leads(intervals[i], ip)

EndsRight ==
  \A i \in DOMAIN intervals : \E k \in DOMAIN networks :
    intervals[i].high \in {networks[k].high, networks[k].low - 1}

CursorRight ==
  \A i \in DOMAIN intervals : i < cursor => intervals[i].high < Last(networks).low

PrefixInv ==
  /\ PrefixTypeOK
  /\ \A k \in DOMAIN networks : InOrder(networks[k], Last(networks))
  /\ freed = <<>> => InOrderAndRight /\ Covered /\ EndsRight /\ CursorRight
  /\ freed # <<>> => AllFreed /\ library = "c" /\ intervals = <<>>
==============================================================================
