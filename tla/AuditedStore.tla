---------------------------- MODULE AuditedStore ----------------------------
(***************************************************************************)
(* What the mutating RPCs promise of the store and the audit trail, with   *)
(* no batch, address, timeout or answer in sight: the store changes by     *)
(* calls only, by a call that is not a dry run and at most once by each;   *)
(* a call is reported in its client's trail exactly once, as a success     *)
(* only if it has done what it was to do; and a call that is over may      *)
(* change the store later only if it was reported as something else.       *)
(*                                                                         *)
(* ResourceOps implements this specification.                              *)
(***************************************************************************)
EXTENDS Naturals, Sequences

CONSTANTS Clients,     \* callers, each with at most one call open
          Ids,         \* identities of calls
          Outcomes,    \* what a trail may say of a call
          Successes    \* the outcomes that say it did its work

VARIABLES objects,     \* what is in the store
          changed,     \* identities of the calls that changed it
          open,        \* open[c]: the set of calls c has open, one at most
          loose,       \* calls that are over and may still change the store
          events       \* events[c]: [id, outcome, dryRun] of c's calls that are over

absVars == <<objects, changed, open, loose, events>>

Reported == UNION { { events[c][i].id : i \in 1..Len(events[c]) } : c \in Clients }
OpenCalls == UNION { open[c] : c \in Clients }
IdsOf(calls) == { call.id : call \in calls }

\* Whatever is in the store, nothing was called yet.
AbsInit ==
  /\ changed = {} /\ loose = {}
  /\ open = [c \in Clients |-> {}]
  /\ events = [c \in Clients |-> << >>]

\* A call is made, with an identity no call had before.
Make(c, call) ==
  /\ open[c] = {}
  /\ call.id \in Ids /\ call.dryRun \in BOOLEAN
  /\ call.id \notin changed \cup Reported \cup IdsOf(OpenCalls) \cup IdsOf(loose)
  /\ open' = [open EXCEPT ![c] = {call}]
  /\ UNCHANGED <<objects, changed, loose, events>>

\* The store is changed by a call, for the first time.
ChangedBy(call) ==
  /\ ~call.dryRun
  /\ call.id \notin changed
  /\ changed' = changed \cup {call.id}
  /\ objects' = IF call.op = "apply" THEN objects \cup {call.obj} ELSE objects \ {call.obj}

Change(c, call) ==
  /\ call \in open[c]
  /\ ChangedBy(call)
  /\ UNCHANGED <<open, loose, events>>

\* A call is over and reported.  It has done its work, or was not to do any, if
\* it is reported as a success; if not it may be let loose.
Report(c, call, outcome) ==
  /\ call \in open[c]
  /\ outcome \in Successes => (call.id \in changed <=> ~call.dryRun)
  /\ open' = [open EXCEPT ![c] = {}]
  /\ events' = [events EXCEPT ![c] =
                  Append(@, [id |-> call.id, outcome |-> outcome, dryRun |-> call.dryRun])]
  /\ \/ UNCHANGED loose
     \/ outcome \notin Successes /\ call.id \notin changed /\ loose' = loose \cup {call}
  /\ UNCHANGED <<objects, changed>>

ChangeLate(call) ==
  /\ call \in loose
  /\ ChangedBy(call)
  /\ loose' = loose \ {call}
  /\ UNCHANGED <<open, events>>

Lose(call) ==
  /\ call \in loose
  /\ loose' = loose \ {call}
  /\ UNCHANGED <<objects, changed, open, events>>

AbsNext ==
  \/ \E c \in Clients :
       \/ \E call \in open'[c] : Make(c, call)
       \/ \E call \in open[c] : Change(c, call) \/ \E o \in Outcomes : Report(c, call, o)
  \/ \E call \in loose : ChangeLate(call) \/ Lose(call)

AbsSpec == AbsInit /\ [][AbsNext]_absVars

-----------------------------------------------------------------------------
\* Every change is reported, or its call is open; no call is reported twice, or
\* both open and reported; and a success changed the store unless it was a dry
\* run, which never does.
AllAccounted ==
  /\ changed \subseteq Reported \cup IdsOf(OpenCalls)
  /\ \A c, d \in Clients : \A i \in 1..Len(events[c]), j \in 1..Len(events[d]) :
       events[c][i].id = events[d][j].id => c = d /\ i = j
  /\ Reported \cap IdsOf(OpenCalls) = {}
  /\ \A c \in Clients : \A i \in 1..Len(events[c]) :
       LET e == events[c][i] IN
       /\ e.outcome \in Successes => (e.id \in changed <=> ~e.dryRun)
       /\ e.dryRun => e.id \notin changed
=============================================================================
