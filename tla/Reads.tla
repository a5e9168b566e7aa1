------------------------------- MODULE Reads -------------------------------
(***************************************************************************)
(* The RPCs that read, side by side: one call of SiteQueries, or one of    *)
(* StreamRead, or a client of ResourceReads.                               *)
(***************************************************************************)
EXTENDS SiteQueries

CONSTANTS
  Limits, Sinces, Untils, streamReadDefaultLimit, streamReadMaxLimit,
  defaultReadLimit, maxReadLimit, NoMetadata, Malformed, Yields, MaxSeq
CONSTANTS
  Objects, Namespaced, CRDs, CRDAPIGroup, ReadRequests, WatchRequests, MaxVersion

ASSUME LimitsAssumption ==
  /\ Limits \subseteq Int
  /\ {streamReadMaxLimit, maxReadLimit} \subseteq Nat
  /\ streamReadDefaultLimit \in 1..streamReadMaxLimit
  /\ defaultReadLimit \in 1..maxReadLimit

ASSUME MessagesAssumption ==
  /\ MaxSeq \in Nat /\ Sinces \subseteq Nat /\ Untils \subseteq Nat
  /\ NoMetadata \cup Malformed \subseteq 1..MaxSeq

\* Namespaces are those of namespaced kinds; a CRD stores one of its versions.
ASSUME ResourcesAssumption ==
  /\ CRDAPIGroup # ""
  /\ \A o \in Objects :
       /\ o = [group |-> o.group, kind |-> o.kind, ns |-> o.ns, name |-> o.name]
       /\ <<o.group, o.kind>> \in DOMAIN Namespaced =>
            Namespaced[<<o.group, o.kind>>] \/ o.ns = ""
  /\ \A key \in DOMAIN CRDs :
       /\ IsList(CRDs[key])
       /\ \A i \in DOMAIN CRDs[key] : CRDs[key][i].name # ""
       /\ \A i, j \in DOMAIN CRDs[key] : CRDs[key][i].storage /\ CRDs[key][j].storage => i = j

VARIABLES
  asked,    \* which of them: "site", "streams", "resources" or "watch"
  req, first, last, reading, start, next, delivered, raw, out, report, answer,
  haveDyn, log, horizon, installed, watch, wire, view, resume, synced, listed, read

Stream == INSTANCE StreamRead WITH pc <- reading
Resources == INSTANCE ResourceReads

streamVars == <<req, first, last, reading, start, next, delivered, raw, out, report, answer>>
resourceVars ==
  <<haveDyn, log, horizon, installed, watch, wire, view, resume, synced, listed, read>>
AllVars == <<asked, vars, streamVars, resourceVars>>

\* Those that are not asked begin in one state.
AllInit ==
  /\ Init /\ Stream!Init /\ Resources!Init
  /\ asked \in {"site", "streams", "resources", "watch"}
  /\ asked # "site" =>
       query = (CHOOSE q \in Queries : TRUE) /\ wired = (CHOOSE w \in Wirings : TRUE)
  /\ asked # "streams" => req = (CHOOSE r \in Stream!Requests : TRUE) /\ last = 0
  /\ asked \in {"site", "streams"} => haveDyn

AllNext ==
  /\ UNCHANGED asked
  /\ \/ asked = "site" /\ Next /\ UNCHANGED <<streamVars, resourceVars>>
     \/ asked = "streams" /\ Stream!Next /\ UNCHANGED <<vars, resourceVars>>
     \/ asked = "resources" /\ (Resources!Server \/ Resources!Reads) /\ UNCHANGED <<vars, streamVars>>
     \/ asked = "watch" /\ (Resources!Server \/ Resources!Stream) /\ UNCHANGED <<vars, streamVars>>

AllSpec == AllInit /\ [][AllNext]_AllVars

\* StreamRead.ReadsOldestWithoutGap: a bounded read skips nothing it should have.
ReadsOldestWithoutGap == Stream!ReadsOldestWithoutGap

\* ResourceReads: a resumed watch misses nothing, and list, get and schema agree.
ResumeLosesNothing == Resources!ResumeLosesNothing
ReadsAreTrue == Resources!ReadsAreTrue
=============================================================================
