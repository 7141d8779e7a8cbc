------------------------------ MODULE MCControl ------------------------------
(***************************************************************************)
(* Formats and Service for one run of TLC: they share no state, and each   *)
(* behaviour is one of the part that is chosen at first.                   *)
(***************************************************************************)
EXTENDS Formats, Service

VARIABLE part

controlVars == <<formatVars, serviceVars, part>>

ControlInit ==
  /\ part \in {"formats", "service"}
  /\ FormatsInit /\ (part # "formats" => req = CHOOSE r \in Required : TRUE)
  /\ ServiceInit

FormatsPart(A) == part = "formats" /\ A /\ UNCHANGED <<serviceVars, part>>
ServicePart(A) == part = "service" /\ A /\ UNCHANGED <<formatVars, part>>

ControlNext == FormatsPart(FormatsNext) \/ ServicePart(ServiceNext)

(* The fairness of the parts, see FormatsFair and ServiceFair.              *)
ControlFair ==
  /\ WF_controlVars(FormatsPart(InputStep)) /\ WF_controlVars(FormatsPart(AcceptNegotiate))
  /\ WF_controlVars(FormatsPart(GetDataFmt /\ code = "FORMAT_CHANGED"))
  /\ WF_controlVars(ServicePart(ServiceStep)) /\ SF_controlVars(ServicePart(PollEvents))

ControlSpec == ControlInit /\ [][ControlNext]_controlVars /\ ControlFair

-----------------------------------------------------------------------------
(* Formats for the run: UniRec templates of one and of two fields and the   *)
(* empty one, raw messages, JSON with and without a specifier.              *)
Specs == {{"a"}, {"a", "b"}, {}}
MCOutFormats ==
  {Format("UNIREC", s) : s \in Specs} \cup
  {Format("RAW", NULL), Format("JSON", {"a"}), Format("JSON", {"b"}), Format("JSON", NULL)}
MCRequired == {Format("UNIREC", {"a"}), Format("RAW", NULL), Format("JSON", {})}
=============================================================================
