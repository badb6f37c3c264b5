----------------------------- MODULE AuditTrail -----------------------------
(***************************************************************************)
(* What the audit trail promises to a caller, whatever its storage: the    *)
(* decision of a call is recorded once, at a position that never changes   *)
(* from the moment the caller is told of it.  A restart may lose records,  *)
(* but only past the last one that was acknowledged.                       *)
(***************************************************************************)
EXTENDS Naturals, Sequences

CONSTANTS Calls,      \* identities of the calls that may be made
          Statuses    \* how a call may be decided

VARIABLES trail,      \* the recorded decisions, oldest first
          acked       \* what callers were told

trailVars == <<trail, acked>>

Entry == [call : Calls, status : Statuses]
Ack   == [call : Calls, status : Statuses, event : Nat \ {0}]

TrailTypeOK == /\ trail \in Seq(Entry)
               /\ acked \subseteq Ack

TrailInit == /\ trail = <<>>
             /\ acked = {}

\* A decision is recorded at the end of the trail, once.
Record == \E e \in Entry :
            /\ \A i \in DOMAIN trail : trail[i].call # e.call
            /\ trail' = Append(trail, e)
            /\ UNCHANGED acked

\* A caller is told of a recorded decision and where it is recorded.
Acknowledge == \E i \in DOMAIN trail :
            /\ acked' = acked \cup {[call   |-> trail[i].call,
                                     status |-> trail[i].status,
                                     event  |-> i]}
            /\ UNCHANGED trail

\* A restart drops records past the last acknowledged one.
Forget == \E n \in 0..Len(trail) :
            /\ \A a \in acked : a.event <= n
            /\ trail' = SubSeq(trail, 1, n)
            /\ UNCHANGED acked

TrailNext == Record \/ Acknowledge \/ Forget

TrailSpec == TrailInit /\ [][TrailNext]_trailVars

\* Every acknowledgement stays true: its entry is where it said it was.
AckedEntriesStay ==
    \A a \in acked : /\ a.event \in DOMAIN trail
                     /\ trail[a.event] = [call |-> a.call, status |-> a.status]
=============================================================================
