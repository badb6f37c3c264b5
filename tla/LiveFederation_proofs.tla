----------------------- MODULE LiveFederation_proofs -----------------------
(***************************************************************************)
(* The safety of the live federation for any number of nodes, submissions, *)
(* outside events, whatever their rules.                                   *)
(*                                                                         *)
(* The invariant says of each submission how far its asks, its votes and   *)
(* the audit logs agree; a step of one submission leaves every other one   *)
(* Untouched, and so does a step of the cluster.                           *)
(***************************************************************************)
EXTENDS LiveFederation, SequenceTheorems, FiniteSetTheorems, TLAPS

-----------------------------------------------------------------------------
\* Every slot has an object.
TypeInv == TypeOK /\ \A n \in Nodes : Current(n) >= 1

\* What has happened before the entry's kernel ran, and after the end.
StageInv(s) ==
    /\ stage[s] \in {"new", "local"} =>
         /\ votes[s] = {} /\ refused[s] = {} /\ todo[s] = {}
         /\ approvals[s] = 0 /\ denials[s] = 0
         /\ asks[s] = NoAsk
         /\ ~Ran(Entry(s), s)
    /\ result[s] # "none" <=> stage[s] = "done"
    /\ result[s] = "allowed" => approvals[s] >= ConfiguredQuorum

\* A peer is asked once, from outside the mask, and its log has what it says.
AskInv(s) ==
    /\ Entry(s) \notin todo[s]
    /\ asks[s][Entry(s)] = "none"
    /\ \A p \in Nodes :
         /\ asks[s][p] # "none" => /\ p \notin Held(s).mask
                                   /\ p \in todo[s] => stage[s] = "waiting" /\ IsNext(s, p)
         /\ asks[s][p] \in Statuses => [sub |-> s, status |-> asks[s][p]] \in ran[p]
         /\ asks[s][p] = "refused" => Entry(s) \in digestsSeen[p] /\ digest[Entry(s)] # digest[p]
         /\ Ran(p, s) /\ p # Entry(s) => asks[s][p] \in Statuses
         /\ Ran(p, s) => digest[p] = digest[Entry(s)]

\* A vote is what a log says, of a node that is behind the loop and outside the
\* mask, and did not refuse.
VoteInv(s) ==
    /\ \A v \in votes[s] : /\ [sub |-> s, status |-> v.status] \in ran[v.node]
                           /\ v.node \notin refused[s]
                           /\ v.node \notin todo[s]
                           /\ v.node \notin Held(s).mask
    /\ \A v, w \in votes[s] : v.node = w.node => v = w
    /\ refused[s] \cap todo[s] = {}

\* The counters count the votes and the refusals.
CountInv(s) ==
    /\ IsFiniteSet(votes[s]) /\ IsFiniteSet(refused[s])
    /\ approvals[s] = Cardinality(Approving(s))
    /\ approvals[s] + denials[s] = Cardinality(votes[s]) + Cardinality(refused[s])

SubInv(s) == StageInv(s) /\ AskInv(s) /\ VoteInv(s) /\ CountInv(s)

\* What an object knows of drift the peer has recorded.
DriftInv == DriftAttribution

Inv == TypeInv /\ DriftInv /\ \A s \in Submissions : SubInv(s)

-----------------------------------------------------------------------------
\* The objects there were are still there, with their masks.
Kept == \A n \in Nodes : \A g \in 1..Len(objects[n]) :
           /\ g \in 1..Len(objects'[n])
           /\ objects'[n][g].mask = objects[n][g].mask

\* A step that is not of submission u: its variables stay, logs and digests
\* only grow, and not by decisions of u.
Untouched(u) ==
    /\ stage'[u] = stage[u] /\ held'[u] = held[u] /\ todo'[u] = todo[u]
    /\ votes'[u] = votes[u] /\ refused'[u] = refused[u]
    /\ approvals'[u] = approvals[u] /\ denials'[u] = denials[u]
    /\ result'[u] = result[u] /\ asks'[u] = asks[u]
    /\ \A n \in Nodes : /\ ran[n] \subseteq ran'[n]
                        /\ \A d \in ran'[n] : d.sub = u => d \in ran[n]
                        /\ digestsSeen[n] \subseteq digestsSeen'[n]

\* A submission that a step leaves alone keeps its invariant.
LEMMA Frame ==
    ASSUME TypeInv, digest' = digest, NEW u \in Submissions, SubInv(u), Untouched(u), Kept
    PROVE  SubInv(u)'
<1>1. /\ Entry(u) \in Nodes /\ Entry(u)' = Entry(u)
      /\ Held(u)'.mask = Held(u).mask
  <2>1. Entry(u) \in Nodes /\ held[u].gen \in 1..Len(objects[Entry(u)])
    BY DEF TypeInv, TypeOK, Current, Entry
  <2> QED BY <2>1 DEF Untouched, Kept, Held, Entry
<1>2. \A n \in Nodes : Ran(n, u)' <=> Ran(n, u)
  BY DEF Ran, Untouched
<1>3. StageInv(u)'
  BY <1>1, <1>2 DEF SubInv, StageInv, Untouched, ConfiguredQuorum, NoAsk
<1>4. AskInv(u)'
  BY <1>1, <1>2 DEF SubInv, AskInv, Untouched, IsNext
<1>5. VoteInv(u)'
  <2>1. \A v \in votes[u] : v.node \in Nodes
    BY DEF TypeInv, TypeOK, Vote
  <2> QED BY <1>1, <2>1 DEF SubInv, VoteInv, Untouched
<1>6. CountInv(u)'
  BY DEF SubInv, CountInv, Untouched, Approving
<1> QED BY <1>3, <1>4, <1>5, <1>6 DEF SubInv

\* Nothing happens to any submission.
LEMMA Stutter == ASSUME Inv, UNCHANGED vars PROVE Inv'
<1>1. Kept
  <2>1. objects' = objects
    BY DEF vars
  <2> QED BY <2>1 DEF Kept
<1>2. \A u \in Submissions : Untouched(u)
  BY DEF vars, Untouched
<1>3. TypeInv'
  BY DEF vars, Inv, TypeInv, TypeOK, Current, Entry
<1>4. DriftInv'
  BY DEF vars, Inv, DriftInv, DriftAttribution
<1>5. digest' = digest
  BY DEF vars
<1> QED BY <1>1, <1>2, <1>3, <1>4, <1>5, Frame DEF Inv

-----------------------------------------------------------------------------
\* An object of a slot is an object; a slot's last is its current one.
LEMMA ObjectType ==
    ASSUME TypeInv, NEW n \in Nodes
    PROVE  /\ objects[n] \in Seq(Object) /\ Current(n) \in Nat \ {0}
           /\ DOMAIN objects[n] = 1..Current(n)
           /\ Last(objects[n]) = objects[n][Current(n)]
           /\ \A g \in 1..Current(n) : objects[n][g] \in Object
<1>1. objects[n] \in Seq(Object) /\ Current(n) >= 1
  BY DEF TypeInv, TypeOK
<1>2. Len(objects[n]) \in Nat /\ DOMAIN objects[n] = 1..Len(objects[n])
  BY <1>1, LenProperties
<1>3. \A g \in 1..Len(objects[n]) : objects[n][g] \in Object
  BY <1>1, ElementOfSeq
<1> QED BY <1>1, <1>2, <1>3 DEF Current, Last

\* No object learns of a drift that an older one of its slot did not know.
LEMMA OldDrift ==
    ASSUME TypeInv, DriftInv, digest' = digest,
           \A n \in Nodes : \A g \in DOMAIN objects'[n] :
              \E h \in DOMAIN objects[n] : objects'[n][g].drift \subseteq objects[n][h].drift,
           \A p \in Nodes : digestsSeen[p] \subseteq digestsSeen'[p]
    PROVE  DriftInv'
<1> SUFFICES ASSUME NEW n \in Nodes, NEW g \in DOMAIN objects'[n], NEW p \in objects'[n][g].drift
             PROVE  n \in digestsSeen'[p] /\ digest[n] # digest[p]
  BY DEF DriftInv, DriftAttribution
<1>1. PICK h \in DOMAIN objects[n] : p \in objects[n][h].drift
  OBVIOUS
<1>2. p \in Nodes
  BY <1>1, ObjectType DEF Object
<1> QED BY <1>1, <1>2 DEF DriftInv, DriftAttribution

\* Object g of slot n becomes e, which has its mask.
Becomes(n, g, e) == /\ objects' = [objects EXCEPT ![n] = [@ EXCEPT ![g] = e]]
                    /\ e.mask = objects[n][g].mask

\* Then the objects keep their types and are kept.
LEMMA SetObject ==
    ASSUME TypeInv, NEW n \in Nodes, NEW g \in 1..Current(n), NEW e \in Object,
           Becomes(n, g, e)
    PROVE  /\ objects' \in [Nodes -> Seq(Object)]
           /\ \A m \in Nodes : Len(objects'[m]) = Len(objects[m])
           /\ \A m \in Nodes : DOMAIN objects'[m] = DOMAIN objects[m]
           /\ objects'[n][g] = e
           /\ \A m \in Nodes, h \in Nat : m # n \/ h # g => objects'[m][h] = objects[m][h]
           /\ Kept
<1>1. objects \in [Nodes -> Seq(Object)] /\ objects[n] \in Seq(Object) /\ g \in 1..Len(objects[n])
  BY DEF TypeInv, TypeOK, Current
<1> DEFINE new == [objects[n] EXCEPT ![g] = e]
<1>2. /\ new \in Seq(Object) /\ Len(new) = Len(objects[n])
      /\ \A h \in 1..Len(objects[n]) : new[h] = IF h = g THEN e ELSE objects[n][h]
      /\ DOMAIN new = DOMAIN objects[n]
      /\ \A h : h # g => new[h] = objects[n][h]
  <2>1. /\ new \in Seq(Object) /\ Len(new) = Len(objects[n])
        /\ \A h \in 1..Len(objects[n]) : new[h] = IF h = g THEN e ELSE objects[n][h]
    BY <1>1, ExceptSeq
  <2> QED BY <2>1
<1> HIDE DEF new
<1>3. objects' = [objects EXCEPT ![n] = new]
  BY DEF new, Becomes
<1>4. objects'[n] = new /\ \A m \in Nodes \ {n} : objects'[m] = objects[m]
  BY <1>1, <1>3
<1>5. Kept
  <2>1. \A m \in Nodes : Len(objects'[m]) = Len(objects[m])
    BY <1>2, <1>4
  <2> QED BY <1>1, <1>2, <1>4, <2>1 DEF Kept, Becomes
<1> QED BY <1>1, <1>2, <1>3, <1>4, <1>5 DEF Current

\* set_partition is called, or goes on: a slot gets an object with a new mask
\* and what the last one had seen and known.
LEMMA SetPartitionInv == ASSUME Inv, digest' = digest, SetPartition PROVE Inv'
<1>1. objects' = objects /\ swap' \in [mask : SUBSET Nodes, left : SUBSET Nodes] /\ events' \in Nat
  BY FederationAssumption DEF SetPartition, Happens, Inv, TypeInv, TypeOK
<1>2. UNCHANGED <<stage, held, todo, tally, result, asks, ran, digestsSeen>>
  BY DEF SetPartition
<1>3. TypeInv' /\ DriftInv'
  BY <1>1, <1>2 DEF Inv, TypeInv, TypeOK, tally, Current, Entry, DriftInv, DriftAttribution
<1>4. Kept /\ \A u \in Submissions : Untouched(u)
  BY <1>1, <1>2 DEF Kept, Untouched, tally
<1> QED BY <1>3, <1>4, Frame DEF Inv

\* One slot gets its new object.
LEMMA SwapSlotInv == ASSUME Inv, digest' = digest, SwapSlot PROVE Inv'
<1>1. PICK n \in swap.left :
         /\ objects' = [objects EXCEPT ![n] = Append(@, [Last(@) EXCEPT !.mask = swap.mask])]
         /\ swap' = [swap EXCEPT !.left = @ \ {n}]
  BY DEF SwapSlot
<1>2. UNCHANGED <<stage, held, todo, tally, result, asks, ran, digestsSeen, events>>
  BY DEF SwapSlot
<1>3. n \in Nodes /\ swap' \in [mask : SUBSET Nodes, left : SUBSET Nodes] /\ swap.mask \in SUBSET Nodes
  BY <1>1 DEF Inv, TypeInv, TypeOK
<1> DEFINE old == objects[n]
           e   == [Last(old) EXCEPT !.mask = swap.mask]
<1>4. /\ old \in Seq(Object) /\ Len(old) \in Nat \ {0} /\ Last(old) = old[Len(old)]
      /\ DOMAIN old = 1..Len(old) /\ Last(old) \in Object
  BY <1>3, ObjectType DEF Inv, Current
<1>5. e \in Object /\ e.drift = Last(old).drift
  BY <1>3, <1>4 DEF Object
<1> HIDE DEF e
<1>6. /\ Append(old, e) \in Seq(Object) /\ Len(Append(old, e)) = Len(old) + 1
      /\ \A g \in 1..Len(old) : Append(old, e)[g] = old[g]
      /\ Append(old, e)[Len(old) + 1] = e
      /\ DOMAIN Append(old, e) = 1..(Len(old) + 1)
  BY <1>4, <1>5, AppendProperties, LenProperties
<1>7. /\ objects' \in [Nodes -> Seq(Object)]
      /\ objects'[n] = Append(old, e)
      /\ \A m \in Nodes \ {n} : objects'[m] = objects[m]
  BY <1>1, <1>3, <1>6 DEF e, Inv, TypeInv, TypeOK
<1>8. \A m \in Nodes : Len(objects'[m]) \in Nat /\ Len(objects[m]) \in Nat
                       /\ Len(objects'[m]) >= Len(objects[m])
  <2> TAKE m \in Nodes
  <2>1. Len(objects[m]) \in Nat
    BY ObjectType DEF Inv, Current
  <2> QED BY <1>4, <1>6, <1>7, <2>1
<1>9. TypeInv'
  <2>1. \A u \in Submissions : held'[u].gen <= Current(Entry(u))'
    BY <1>2, <1>8 DEF Inv, TypeInv, TypeOK, Current, Entry
  <2>2. \A m \in Nodes : Current(m)' >= 1
    BY <1>8 DEF Inv, TypeInv, Current
  <2> QED BY <1>2, <1>3, <1>7, <2>1, <2>2 DEF Inv, TypeInv, TypeOK, tally
<1>10. Kept
  BY <1>4, <1>6, <1>7, <1>8 DEF Kept
<1>11. DriftInv'
  <2>1. ASSUME NEW m \in Nodes, NEW g \in DOMAIN objects'[m]
        PROVE  \E h \in DOMAIN objects[m] : objects'[m][g].drift \subseteq objects[m][h].drift
    <3>1. CASE m # n
      BY <1>7, <3>1
    <3>2. CASE m = n /\ g \in 1..Len(old)
      BY <1>4, <1>6, <1>7, <3>2
    <3>3. CASE m = n /\ g = Len(old) + 1
      BY <1>4, <1>5, <1>6, <1>7, <3>3
    <3> QED BY <1>4, <1>6, <1>7, <3>1, <3>2, <3>3
  <2> QED BY <1>2, <2>1, OldDrift DEF Inv
<1>12. \A u \in Submissions : Untouched(u)
  BY <1>2 DEF Untouched, tally
<1> QED BY <1>9, <1>10, <1>11, <1>12, Frame DEF Inv

\* Time passes for one peer in one object of a slot.
LEMMA ExpireInv == ASSUME Inv, digest' = digest, NEW n \in Nodes, NEW p \in Nodes, Expire(n, p) PROVE Inv'
<1>1. PICK g \in 1..Current(n) : objects' = [objects EXCEPT ![n][g].seen = @ \ {p}]
  BY DEF Expire
<1>2. UNCHANGED <<swap, stage, held, todo, tally, result, asks, ran, digestsSeen>> /\ events' \in Nat
  BY DEF Expire, Happens, Inv, TypeInv, TypeOK
<1> DEFINE e == [objects[n][g] EXCEPT !.seen = @ \ {p}]
<1>3. objects' = [objects EXCEPT ![n] = [@ EXCEPT ![g] = e]]
  BY <1>1
<1>4. objects[n][g] \in Object
  BY ObjectType DEF Inv
<1>5. e \in Object /\ e.mask = objects[n][g].mask /\ e.drift = objects[n][g].drift
  BY <1>4 DEF Object
<1> HIDE DEF e
<1>6. /\ objects' \in [Nodes -> Seq(Object)] /\ Kept /\ objects'[n][g] = e
      /\ \A m \in Nodes : Len(objects'[m]) = Len(objects[m])
      /\ \A m \in Nodes : DOMAIN objects'[m] = DOMAIN objects[m]
      /\ \A m \in Nodes, h \in Nat : m # n \/ h # g => objects'[m][h] = objects[m][h]
  <2>1. TypeInv /\ Becomes(n, g, e)
    BY <1>3, <1>5 DEF Inv, Becomes
  <2> QED BY <1>5, <2>1, SetObject
<1>7. TypeInv'
  BY <1>2, <1>6 DEF Inv, TypeInv, TypeOK, tally, Entry, Current
<1>8. DriftInv'
  <2>1. ASSUME NEW m \in Nodes, NEW h \in DOMAIN objects'[m]
        PROVE  objects'[m][h].drift \subseteq objects[m][h].drift /\ h \in DOMAIN objects[m]
    <3>1. h \in Nat /\ h \in DOMAIN objects[m]
      BY <1>6, ObjectType DEF Inv
    <3> QED BY <1>5, <1>6, <3>1
  <2> QED BY <1>2, <2>1, OldDrift DEF Inv
<1>9. \A u \in Submissions : Untouched(u)
  BY <1>2 DEF Untouched, tally
<1> QED BY <1>6, <1>7, <1>8, <1>9, Frame DEF Inv

\* A heartbeat is handled: the current object of every other slot has seen p.
LEMMA HeartbeatInv == ASSUME Inv, digest' = digest, NEW p \in Nodes, Heartbeat(p) PROVE Inv'
<1>1. UNCHANGED <<swap, stage, held, todo, tally, result, asks, ran, digestsSeen>> /\ events' \in Nat
  BY DEF Heartbeat, Happens, Inv, TypeInv, TypeOK
<1>2. ASSUME NEW n \in Nodes
      PROVE  /\ objects'[n] \in Seq(Object)
             /\ Len(objects'[n]) = Len(objects[n])
             /\ DOMAIN objects'[n] = DOMAIN objects[n]
             /\ \A g \in 1..Len(objects[n]) :
                  /\ objects'[n][g].mask = objects[n][g].mask
                  /\ objects'[n][g].drift = objects[n][g].drift
  <2>1. /\ objects[n] \in Seq(Object) /\ Len(objects[n]) \in Nat \ {0}
        /\ DOMAIN objects[n] = 1..Len(objects[n])
        /\ \A g \in 1..Len(objects[n]) : objects[n][g] \in Object
    BY ObjectType DEF Inv, Current
  <2>2. CASE n = p
    BY <2>1, <2>2 DEF Heartbeat
  <2>3. CASE n # p
    <3> DEFINE g == Len(objects[n])
               e == [objects[n][g] EXCEPT !.seen = @ \cup {p}]
    <3>1. objects'[n] = [objects[n] EXCEPT ![g] = e]
      BY <2>3 DEF Heartbeat, Current
    <3>2. g \in 1..Len(objects[n]) /\ objects[n][g] \in Object
      BY <2>1
    <3>3. e \in Object /\ e.mask = objects[n][g].mask /\ e.drift = objects[n][g].drift
      BY <3>2 DEF Object
    <3> HIDE DEF e, g
    <3>4. /\ objects'[n] \in Seq(Object) /\ Len(objects'[n]) = Len(objects[n])
          /\ \A h \in 1..Len(objects[n]) : objects'[n][h] = IF h = g THEN e ELSE objects[n][h]
      BY <2>1, <3>1, <3>2, <3>3, ExceptSeq
    <3>5. DOMAIN objects'[n] = DOMAIN objects[n]
      BY <2>1, <3>4, LenProperties
    <3> QED BY <3>3, <3>4, <3>5
  <2> QED BY <2>2, <2>3
<1>3. objects' \in [Nodes -> Seq(Object)]
  BY <1>2 DEF Heartbeat
<1>4. Kept
  BY <1>2 DEF Kept
<1>5. TypeInv'
  BY <1>1, <1>2, <1>3 DEF Inv, TypeInv, TypeOK, tally, Entry, Current
<1>6. DriftInv'
  <2>1. \A n \in Nodes : \A g \in DOMAIN objects'[n] :
           g \in DOMAIN objects[n] /\ objects'[n][g].drift \subseteq objects[n][g].drift
    BY <1>2, ObjectType DEF Inv, Current
  <2> QED BY <1>1, <2>1, OldDrift DEF Inv
<1>7. \A u \in Submissions : Untouched(u)
  BY <1>1 DEF Untouched, tally
<1> QED BY <1>4, <1>5, <1>6, <1>7, Frame DEF Inv

-----------------------------------------------------------------------------
\* A step of submission s keeps the invariant when it keeps that of s.
LEMMA OneStep ==
    ASSUME Inv, digest' = digest, NEW s \in Submissions, TypeInv', DriftInv', Kept, SubInv(s)',
           \A u \in Submissions \ {s} : Untouched(u)
    PROVE  Inv'
<1>1. \A u \in Submissions : SubInv(u)'
  BY Frame DEF Inv
<1> QED BY <1>1 DEF Inv

\* A step that leaves the objects alone.
LEMMA SameObjects ==
    ASSUME Inv, digest' = digest, objects' = objects, \A p \in Nodes : digestsSeen[p] \subseteq digestsSeen'[p]
    PROVE  Kept /\ DriftInv'
<1>1. Kept
  BY DEF Kept
<1>2. DriftInv'
  BY OldDrift DEF Inv
<1> QED BY <1>1, <1>2

\* One vote of a node that had none: it is counted as what it is.
LEMMA CountVote ==
    ASSUME TypeInv, NEW s \in Submissions, NEW n \in Nodes, NEW status \in Statuses,
           CountInv(s), \A v \in votes[s] : v.node # n, Count(s, n, status)
    PROVE  /\ votes' \in [Submissions -> SUBSET Vote]
           /\ votes'[s] = votes[s] \cup {[node |-> n, status |-> status]}
           /\ approvals' \in [Submissions -> Nat] /\ denials' \in [Submissions -> Nat]
           /\ refused' = refused
           /\ \A u \in Submissions \ {s} : /\ votes'[u] = votes[u]
                                          /\ approvals'[u] = approvals[u]
                                          /\ denials'[u] = denials[u]
           /\ CountInv(s)'
<1> DEFINE v == [node |-> n, status |-> status]
<1>1. /\ votes \in [Submissions -> SUBSET Vote]
      /\ approvals \in [Submissions -> Nat] /\ denials \in [Submissions -> Nat]
  BY DEF TypeInv, TypeOK
<1>2. v \in Vote /\ v.node = n /\ v.status = status
  BY DEF Vote
<1> HIDE DEF v
<1>3. /\ votes' = [votes EXCEPT ![s] = @ \cup {v}] /\ refused' = refused
      /\ approvals' = [approvals EXCEPT ![s] = @ + IF status = "allowed" THEN 1 ELSE 0]
      /\ denials' = [denials EXCEPT ![s] = @ + IF status = "allowed" THEN 0 ELSE 1]
  BY <1>1 DEF Count, v
<1>4. votes'[s] = votes[s] \cup {v} /\ v \notin votes[s]
  BY <1>1, <1>2, <1>3 DEF CountInv
<1>5. /\ IsFiniteSet(votes'[s]) /\ Cardinality(votes'[s]) = Cardinality(votes[s]) + 1
      /\ Cardinality(votes[s]) \in Nat
  <2>1. IsFiniteSet(votes[s])
    BY DEF CountInv
  <2>2. /\ IsFiniteSet(votes[s] \cup {v})
        /\ Cardinality(votes[s] \cup {v}) = Cardinality(votes[s]) + 1
    BY <1>4, <2>1, FS_AddElement
  <2> QED BY <1>4, <2>1, <2>2, FS_CardinalityType
<1>6. /\ IsFiniteSet(Approving(s)) /\ Cardinality(Approving(s)) \in Nat
  <2>1. Approving(s) \in SUBSET votes[s]
    BY DEF Approving
  <2>2. IsFiniteSet(Approving(s))
    BY <2>1, FS_Subset DEF CountInv
  <2> QED BY <2>2, FS_CardinalityType
<1>7. Cardinality(Approving(s)') = Cardinality(Approving(s)) + IF status = "allowed" THEN 1 ELSE 0
  <2>1. CASE status = "allowed"
    <3>1. Approving(s)' = Approving(s) \cup {v} /\ v \notin Approving(s)
      BY <1>2, <1>4, <2>1 DEF Approving
    <3> QED BY <1>6, <2>1, <3>1, FS_AddElement
  <2>2. CASE status # "allowed"
    <3>1. Approving(s)' = Approving(s)
      BY <1>2, <1>4, <2>2 DEF Approving
    <3> QED BY <1>6, <2>2, <3>1
  <2> QED BY <2>1, <2>2
<1>8. Cardinality(refused[s]) \in Nat
  BY FS_CardinalityType DEF CountInv
<1>9. CountInv(s)'
  <2>1. approvals'[s] = Cardinality(Approving(s)')
    BY <1>1, <1>3, <1>7 DEF CountInv
  <2>2. approvals'[s] + denials'[s] = Cardinality(votes'[s]) + Cardinality(refused'[s])
    <3>1. approvals'[s] + denials'[s] = approvals[s] + denials[s] + 1
      BY <1>1, <1>3
    <3> QED BY <1>1, <1>3, <1>5, <1>8, <3>1 DEF CountInv
  <2> QED BY <1>3, <1>5, <2>1, <2>2 DEF CountInv
<1>10. /\ votes' \in [Submissions -> SUBSET Vote]
       /\ approvals' \in [Submissions -> Nat] /\ denials' \in [Submissions -> Nat]
  BY <1>1, <1>2, <1>3
<1> QED BY <1>1, <1>3, <1>4, <1>9, <1>10 DEF v

\* LiveCluster.submit takes up the entry's current object.
LEMMA BeginInv == ASSUME Inv, digest' = digest, NEW s \in Submissions, Begin(s) PROVE Inv'
<1>1. /\ stage[s] = "new" /\ stage' = [stage EXCEPT ![s] = "local"]
      /\ held' = [held EXCEPT ![s].gen = Current(Entry(s))]
      /\ UNCHANGED <<cluster, todo, tally, result, asks, ran, digestsSeen, events>>
  BY DEF Begin, Goto
<1>2. /\ TypeInv /\ SubInv(s) /\ Entry(s) \in Nodes
      /\ Current(Entry(s)) \in Nat \ {0}
  <2>1. Entry(s) \in Nodes
    BY DEF Inv, TypeInv, TypeOK, Entry
  <2> QED BY <2>1, ObjectType DEF Inv
<1>3. /\ held' \in [Submissions -> [entry : Nodes, gen : Nat \ {0}]]
      /\ held'[s].gen = Current(Entry(s)) /\ Entry(s)' = Entry(s)
      /\ \A u \in Submissions \ {s} : held'[u] = held[u] /\ Entry(u)' = Entry(u)
  <2> DEFINE e == [held[s] EXCEPT !.gen = Current(Entry(s))]
  <2>1. held \in [Submissions -> [entry : Nodes, gen : Nat \ {0}]]
    BY <1>2 DEF TypeInv, TypeOK
  <2>2. /\ e \in [entry : Nodes, gen : Nat \ {0}]
        /\ e.entry = held[s].entry /\ e.gen = Current(Entry(s))
    BY <1>2, <2>1
  <2>3. held' = [held EXCEPT ![s] = e]
    BY <1>1
  <2> HIDE DEF e
  <2> QED BY <2>1, <2>2, <2>3 DEF Entry
<1>4. TypeInv'
  <2>1. \A u \in Submissions : held'[u].gen <= Current(Entry(u))'
    <3> TAKE u \in Submissions
    <3>1. CASE u = s
      BY <1>1, <1>2, <1>3, <3>1 DEF cluster, Current
    <3>2. CASE u # s
      BY <1>1, <1>2, <1>3, <3>2 DEF cluster, TypeInv, TypeOK, Current
    <3> QED BY <3>1, <3>2
  <2>2. stage' \in [Submissions -> Stages]
    BY <1>1, <1>2 DEF TypeInv, TypeOK, Stages
  <2> QED BY <1>1, <1>2, <1>3, <2>1, <2>2
          DEF cluster, tally, TypeInv, TypeOK, Current
<1>5. Kept /\ DriftInv'
  BY <1>1, SameObjects DEF cluster
<1>6. \A u \in Submissions \ {s} : Untouched(u)
  BY <1>1, <1>2, <1>3 DEF Untouched, tally, TypeInv, TypeOK
<1>7. SubInv(s)'
  <2>1. /\ stage'[s] = "local" /\ votes'[s] = {} /\ refused'[s] = {} /\ todo'[s] = {}
        /\ approvals'[s] = 0 /\ denials'[s] = 0 /\ asks'[s] = NoAsk
        /\ result'[s] = result[s] /\ ran' = ran /\ ~Ran(Entry(s), s)
    BY <1>1, <1>2 DEF tally, SubInv, StageInv, TypeInv, TypeOK
  <2>2. StageInv(s)'
    BY <1>1, <1>2, <1>3, <2>1 DEF SubInv, StageInv, Ran, ConfiguredQuorum, NoAsk
  <2>3. AskInv(s)'
    <3>1. \A p \in Nodes : asks[s][p] = "none" /\ asks'[s][p] = "none"
      BY <1>1, <2>1 DEF NoAsk
    <3> QED BY <1>1, <1>2, <1>3, <2>1, <3>1 DEF SubInv, AskInv, Ran, Statuses
  <2>4. VoteInv(s)'
    BY <2>1 DEF VoteInv
  <2>5. CountInv(s)'
    BY <1>1, <1>2 DEF SubInv, CountInv, tally, Approving
  <2> QED BY <2>2, <2>3, <2>4, <2>5 DEF SubInv
<1> QED BY <1>4, <1>5, <1>6, <1>7, OneStep

\* The entry's kernel decides, and votes unless the entry is in its mask.
LEMMA DecideLocallyInv == ASSUME Inv, digest' = digest, NEW s \in Submissions, DecideLocally(s) PROVE Inv'
<1> DEFINE n == Entry(s)
<1>1. PICK status \in Verdicts[n] \ {"raises"} :
         /\ ran' = [ran EXCEPT ![n] = @ \cup {[sub |-> s, status |-> status]}]
         /\ IF n \in Held(s).mask THEN UNCHANGED tally ELSE Count(s, n, status)
  BY DEF DecideLocally
<1>2. /\ stage[s] = "local" /\ stage' = [stage EXCEPT ![s] = "peers"]
      /\ todo' = [todo EXCEPT ![s] = Nodes \ {n}]
      /\ UNCHANGED <<cluster, held, result, asks, digestsSeen, events>>
  BY DEF DecideLocally, Goto
<1>3. TypeInv /\ SubInv(s) /\ n \in Nodes /\ Held(s)' = Held(s) /\ n' = n /\ status \in Statuses
  BY <1>1, <1>2, FederationAssumption
     DEF Inv, TypeInv, TypeOK, Entry, Held, cluster, Statuses
<1>4. /\ votes[s] = {} /\ refused[s] = {} /\ asks[s] = NoAsk /\ ~Ran(n, s)
      /\ approvals[s] = 0 /\ denials[s] = 0 /\ result[s] = "none"
  BY <1>2, <1>3 DEF SubInv, StageInv
<1>5. /\ votes' \in [Submissions -> SUBSET Vote]
      /\ approvals' \in [Submissions -> Nat] /\ denials' \in [Submissions -> Nat]
      /\ refused' = refused
      /\ \A u \in Submissions \ {s} : /\ votes'[u] = votes[u]
                                     /\ approvals'[u] = approvals[u]
                                     /\ denials'[u] = denials[u]
      /\ CountInv(s)'
      /\ votes'[s] = IF n \in Held(s).mask THEN {} ELSE {[node |-> n, status |-> status]}
  <2>1. CASE n \in Held(s).mask
    BY <1>1, <1>3, <1>4, <2>1 DEF tally, SubInv, CountInv, Approving, TypeInv, TypeOK
  <2>2. CASE n \notin Held(s).mask
    <3>1. Count(s, n, status) /\ CountInv(s) /\ \A v \in votes[s] : v.node # n
      BY <1>1, <1>3, <1>4, <2>2 DEF SubInv
    <3> QED BY <1>3, <1>4, <2>2, <3>1, CountVote
  <2> QED BY <2>1, <2>2
<1>6. /\ ran' \in [Nodes -> SUBSET [sub : Submissions, status : Statuses]]
      /\ ran'[n] = ran[n] \cup {[sub |-> s, status |-> status]}
      /\ \A m \in Nodes \ {n} : ran'[m] = ran[m]
  <2> DEFINE d == [sub |-> s, status |-> status]
  <2>1. d \in [sub : Submissions, status : Statuses]
    BY <1>3
  <2> HIDE DEF d
  <2>2. ran' = [ran EXCEPT ![n] = @ \cup {d}] /\ ran \in [Nodes -> SUBSET [sub : Submissions, status : Statuses]]
    BY <1>1, <1>3 DEF d, TypeInv, TypeOK
  <2> QED BY <1>3, <2>1, <2>2 DEF d
<1>7. TypeInv'
  BY <1>2, <1>3, <1>5, <1>6 DEF TypeInv, TypeOK, cluster, Stages, Current, Entry
<1>8. Kept /\ DriftInv'
  BY <1>2, SameObjects DEF cluster
<1>9. \A u \in Submissions \ {s} : Untouched(u)
  <2>1. \A m \in Nodes : /\ ran[m] \subseteq ran'[m]
                         /\ \A d \in ran'[m] : d \in ran[m] \/ d.sub = s
    BY <1>6
  <2>2. \A u \in Submissions \ {s} : stage'[u] = stage[u] /\ todo'[u] = todo[u]
    BY <1>2, <1>3 DEF TypeInv, TypeOK
  <2> QED BY <1>2, <1>5, <2>1, <2>2 DEF Untouched
<1>10. SubInv(s)'
  <2>1. /\ stage'[s] = "peers" /\ todo'[s] = Nodes \ {n} /\ refused'[s] = {}
        /\ result'[s] = "none" /\ asks'[s] = NoAsk
    BY <1>2, <1>3, <1>4, <1>5 DEF TypeInv, TypeOK
  <2>2. StageInv(s)'
    BY <2>1 DEF StageInv
  <2>3. AskInv(s)'
    <3>1. \A p \in Nodes : asks'[s][p] = "none"
      BY <2>1 DEF NoAsk
    <3>2. \A p \in Nodes \ {n} : ~Ran(p, s)'
      <4>1. \A p \in Nodes \ {n} : ~Ran(p, s)
        BY <1>3, <1>4 DEF SubInv, AskInv, NoAsk, Statuses
      <4> QED BY <1>6, <4>1 DEF Ran
    <3> QED BY <1>3, <2>1, <3>1, <3>2 DEF AskInv, Statuses
  <2>4. VoteInv(s)'
    <3>1. \A v \in votes'[s] : v = [node |-> n, status |-> status] /\ n \notin Held(s).mask
      BY <1>5
    <3>2. \A v \in votes'[s] : /\ v.node = n /\ v.status = status
                               /\ [sub |-> s, status |-> v.status] \in ran'[v.node]
      BY <1>6, <3>1
    <3> QED BY <1>3, <2>1, <3>1, <3>2 DEF VoteInv
  <2> QED BY <1>5, <2>2, <2>3, <2>4 DEF SubInv
<1> QED BY <1>7, <1>8, <1>9, <1>10, OneStep

\* A step that ends submission s with an outcome that is not an approval, or
\* with one that enough votes approve, and leaves its peers.
LEMMA FinishInv ==
    ASSUME Inv, digest' = digest, NEW s \in Submissions, stage[s] # "done", NEW outcome \in Results \ {"none"},
           Finish(s, outcome), outcome = "allowed" => approvals[s] >= ConfiguredQuorum,
           todo' \in [Submissions -> SUBSET Nodes], todo'[s] \subseteq todo[s],
           \A u \in Submissions \ {s} : todo'[u] = todo[u],
           \A p \in todo'[s] : asks[s][p] = "none",
           UNCHANGED <<cluster, held, tally, asks, ran, digestsSeen>>,
           events' \in Nat
    PROVE  Inv'
<1>1. /\ stage' = [stage EXCEPT ![s] = "done"] /\ result' = [result EXCEPT ![s] = outcome]
  BY DEF Finish, Goto
<1>2. TypeInv /\ SubInv(s) /\ Entry(s) \in Nodes /\ Held(s)' = Held(s) /\ Entry(s)' = Entry(s)
  BY DEF Inv, TypeInv, TypeOK, Entry, Held, cluster
<1>3. /\ stage' \in [Submissions -> Stages] /\ stage'[s] = "done"
      /\ result' \in [Submissions -> Results] /\ result'[s] = outcome
      /\ \A u \in Submissions \ {s} : stage'[u] = stage[u] /\ result'[u] = result[u]
  BY <1>1, <1>2 DEF TypeInv, TypeOK, Stages
<1>4. TypeInv'
  BY <1>2, <1>3 DEF TypeInv, TypeOK, cluster, tally, Current, Entry
<1>5. Kept /\ DriftInv'
  BY SameObjects DEF cluster
<1>6. \A u \in Submissions \ {s} : Untouched(u)
  BY <1>3 DEF Untouched, tally
<1>7. SubInv(s)'
  <2>1. StageInv(s)'
    BY <1>3 DEF StageInv, tally, ConfiguredQuorum
  <2>2. AskInv(s)'
    BY <1>2, <1>3 DEF SubInv, AskInv, Ran
  <2>3. VoteInv(s)'
    BY <1>2 DEF SubInv, VoteInv, tally
  <2>4. CountInv(s)'
    BY <1>2 DEF SubInv, CountInv, tally, Approving
  <2> QED BY <2>1, <2>2, <2>3, <2>4 DEF SubInv
<1> QED BY <1>4, <1>5, <1>6, <1>7, OneStep

\* The entry's kernel raises.
LEMMA LocalRaisesInv == ASSUME Inv, digest' = digest, NEW s \in Submissions, LocalRaises(s) PROVE Inv'
<1>1. /\ stage[s] = "local" /\ Finish(s, "aborted")
      /\ UNCHANGED <<cluster, held, todo, tally, asks, ran, digestsSeen, events>>
  BY DEF LocalRaises
<1>2. /\ todo \in [Submissions -> SUBSET Nodes] /\ todo[s] = {} /\ events \in Nat
  BY <1>1 DEF Inv, TypeInv, TypeOK, SubInv, StageInv
<1>3. "aborted" \in Results \ {"none"} /\ stage[s] # "done"
  BY <1>1 DEF Results
<1> QED BY <1>1, <1>2, <1>3, FinishInv

\* The loop passes over a peer, or asks it.
LEMMA SkipPeerInv == ASSUME Inv, digest' = digest, NEW s \in Submissions, SkipPeer(s) PROVE Inv'
<1>1. PICK p \in todo[s] : IsNext(s, p) /\ todo' = [todo EXCEPT ![s] = @ \ {p}]
  BY DEF SkipPeer
<1>2. /\ stage[s] = "peers"
      /\ UNCHANGED <<cluster, stage, held, tally, result, asks, ran, digestsSeen, events>>
  BY DEF SkipPeer
<1>3. /\ TypeInv /\ SubInv(s) /\ Entry(s) \in Nodes /\ Held(s)' = Held(s) /\ Entry(s)' = Entry(s)
  BY <1>2 DEF Inv, TypeInv, TypeOK, Entry, Held, cluster
<1>4. /\ todo' \in [Submissions -> SUBSET Nodes] /\ todo'[s] \subseteq todo[s]
      /\ \A u \in Submissions \ {s} : todo'[u] = todo[u]
  BY <1>1, <1>3 DEF TypeInv, TypeOK
<1>5. TypeInv'
  BY <1>2, <1>3, <1>4 DEF TypeInv, TypeOK, cluster, tally, Current, Entry
<1>6. Kept /\ DriftInv'
  BY <1>2, SameObjects DEF cluster
<1>7. \A u \in Submissions \ {s} : Untouched(u)
  BY <1>2, <1>4 DEF Untouched, tally
<1>8. SubInv(s)'
  <2>1. StageInv(s)'
    BY <1>2, <1>3 DEF SubInv, StageInv, tally, ConfiguredQuorum
  <2>2. AskInv(s)'
    BY <1>2, <1>3, <1>4 DEF SubInv, AskInv, Ran
  <2>3. VoteInv(s)'
    BY <1>2, <1>3, <1>4 DEF SubInv, VoteInv, tally
  <2>4. CountInv(s)'
    BY <1>2, <1>3 DEF SubInv, CountInv, tally, Approving
  <2> QED BY <2>1, <2>2, <2>3, <2>4 DEF SubInv
<1> QED BY <1>5, <1>6, <1>7, <1>8, OneStep

\* A peer is asked.
LEMMA AskPeerInv == ASSUME Inv, digest' = digest, NEW s \in Submissions, AskPeer(s) PROVE Inv'
<1>1. PICK p \in todo[s] : /\ IsNext(s, p) /\ Askable(s, p)
                           /\ asks' = [asks EXCEPT ![s] = [@ EXCEPT ![p] = "sent"]]
  BY DEF AskPeer
<1>2. /\ stage[s] = "peers" /\ stage' = [stage EXCEPT ![s] = "waiting"]
      /\ UNCHANGED <<cluster, held, todo, tally, result, ran, digestsSeen, events>>
  BY DEF AskPeer, Goto
<1>3. /\ TypeInv /\ SubInv(s) /\ Entry(s) \in Nodes /\ Held(s)' = Held(s) /\ Entry(s)' = Entry(s)
  BY <1>2 DEF Inv, TypeInv, TypeOK, Entry, Held, cluster
<1>4. /\ p \in Nodes /\ p # Entry(s) /\ asks[s][p] = "none" /\ p \notin Held(s).mask
      /\ \A q \in todo[s] : asks[s][q] = "none"
      /\ result[s] = "none"
  BY <1>1, <1>2, <1>3 DEF TypeInv, TypeOK, SubInv, StageInv, AskInv, Askable
<1>5. /\ asks' \in [Submissions -> [Nodes -> AskState]]
      /\ asks'[s][p] = "sent" /\ \A q \in Nodes \ {p} : asks'[s][q] = asks[s][q]
      /\ \A u \in Submissions \ {s} : asks'[u] = asks[u]
  <2> DEFINE row == [asks[s] EXCEPT ![p] = "sent"]
  <2>1. asks \in [Submissions -> [Nodes -> AskState]] /\ "sent" \in AskState
    BY <1>3 DEF TypeInv, TypeOK, AskState
  <2>2. /\ row \in [Nodes -> AskState] /\ row[p] = "sent"
        /\ \A q \in Nodes \ {p} : row[q] = asks[s][q]
    BY <1>4, <2>1
  <2>3. asks' = [asks EXCEPT ![s] = row]
    BY <1>1
  <2> HIDE DEF row
  <2> QED BY <2>1, <2>2, <2>3
<1>6. /\ stage' \in [Submissions -> Stages] /\ stage'[s] = "waiting"
      /\ \A u \in Submissions \ {s} : stage'[u] = stage[u]
  BY <1>2, <1>3 DEF TypeInv, TypeOK, Stages
<1>7. TypeInv'
  BY <1>2, <1>3, <1>5, <1>6 DEF TypeInv, TypeOK, cluster, tally, Current, Entry
<1>8. Kept /\ DriftInv'
  BY <1>2, SameObjects DEF cluster
<1>9. \A u \in Submissions \ {s} : Untouched(u)
  BY <1>2, <1>5, <1>6 DEF Untouched, tally
<1>10. SubInv(s)'
  <2>1. StageInv(s)'
    BY <1>2, <1>4, <1>6 DEF StageInv
  <2>2. AskInv(s)'
    <3>1. Entry(s) \notin todo'[s] /\ asks'[s][Entry(s)] = "none"
      BY <1>2, <1>3, <1>4, <1>5 DEF SubInv, AskInv
    <3>2. ASSUME NEW q \in Nodes
          PROVE  /\ asks'[s][q] # "none" => /\ q \notin Held(s).mask
                                            /\ q \in todo[s] => IsNext(s, q)
                 /\ asks'[s][q] \in Statuses => [sub |-> s, status |-> asks'[s][q]] \in ran[q]
                 /\ asks'[s][q] = "refused" => Entry(s) \in digestsSeen[q] /\ digest[Entry(s)] # digest[q]
                 /\ Ran(q, s) /\ q # Entry(s) => asks'[s][q] \in Statuses
                 /\ Ran(q, s) => digest[q] = digest[Entry(s)]
      <4>1. CASE q = p
        BY <1>1, <1>3, <1>4, <1>5, <4>1 DEF SubInv, AskInv, Statuses
      <4>2. CASE q # p
        BY <1>3, <1>4, <1>5, <4>2 DEF SubInv, AskInv
      <4> QED BY <4>1, <4>2
    <3> QED BY <1>2, <1>3, <1>6, <3>1, <3>2 DEF AskInv, Ran, IsNext
  <2>3. VoteInv(s)'
    BY <1>2, <1>3 DEF SubInv, VoteInv, tally
  <2>4. CountInv(s)'
    BY <1>2, <1>3 DEF SubInv, CountInv, tally, Approving
  <2> QED BY <2>1, <2>2, <2>3, <2>4 DEF SubInv
<1> QED BY <1>7, <1>8, <1>9, <1>10, OneStep

\* The answer of peer p to an ask is entered: it is one of AskState.
LEMMA AnswerEntered ==
    ASSUME TypeInv, NEW s \in Submissions, NEW p \in Nodes, NEW answer \in AskState,
           asks' = [asks EXCEPT ![s][p] = answer]
    PROVE  /\ asks' \in [Submissions -> [Nodes -> AskState]]
           /\ asks'[s][p] = answer /\ \A q \in Nodes \ {p} : asks'[s][q] = asks[s][q]
           /\ \A u \in Submissions \ {s} : asks'[u] = asks[u]
<1> DEFINE row == [asks[s] EXCEPT ![p] = answer]
<1>1. asks \in [Submissions -> [Nodes -> AskState]]
  BY DEF TypeInv, TypeOK
<1>2. /\ row \in [Nodes -> AskState] /\ row[p] = answer
      /\ \A q \in Nodes \ {p} : row[q] = asks[s][q]
  BY <1>1
<1>3. asks' = [asks EXCEPT ![s] = row]
  OBVIOUS
<1> HIDE DEF row
<1> QED BY <1>1, <1>2, <1>3

\* The peer has recorded the sender of an ask it answers.
LEMMA SenderSeen ==
    ASSUME TypeInv, NEW n \in Nodes, NEW p \in Nodes,
           digestsSeen' = [digestsSeen EXCEPT ![p] = @ \cup {n}]
    PROVE  /\ digestsSeen' \in [Nodes -> SUBSET Nodes] /\ n \in digestsSeen'[p]
           /\ \A m \in Nodes : digestsSeen[m] \subseteq digestsSeen'[m]
BY DEF TypeInv, TypeOK

\* A peer of other rules answers 409; its kernel does not run.
LEMMA PeerRefusesInv ==
    ASSUME Inv, digest' = digest, NEW s \in Submissions, NEW p \in Nodes, PeerRefuses(s, p) PROVE Inv'
<1>1. /\ asks[s][p] = "sent" /\ digest[Entry(s)] # digest[p]
      /\ digestsSeen' = [digestsSeen EXCEPT ![p] = @ \cup {Entry(s)}]
      /\ asks' = [asks EXCEPT ![s][p] = "refused"]
      /\ UNCHANGED <<cluster, stage, held, todo, tally, result, ran, events>>
  BY DEF PeerRefuses
<1>2. /\ TypeInv /\ SubInv(s) /\ Entry(s) \in Nodes /\ Held(s)' = Held(s) /\ Entry(s)' = Entry(s)
  BY <1>1 DEF Inv, TypeInv, TypeOK, Entry, Held, cluster
<1>3. /\ asks' \in [Submissions -> [Nodes -> AskState]]
      /\ asks'[s][p] = "refused" /\ \A q \in Nodes \ {p} : asks'[s][q] = asks[s][q]
      /\ \A u \in Submissions \ {s} : asks'[u] = asks[u]
  <2>1. "refused" \in AskState
    BY DEF AskState
  <2> QED BY <1>1, <1>2, <2>1, AnswerEntered
<1>4. /\ digestsSeen' \in [Nodes -> SUBSET Nodes] /\ Entry(s) \in digestsSeen'[p]
      /\ \A m \in Nodes : digestsSeen[m] \subseteq digestsSeen'[m]
  BY <1>1, <1>2, SenderSeen
<1>5. TypeInv'
  BY <1>1, <1>2, <1>3, <1>4 DEF TypeInv, TypeOK, cluster, tally, Current, Entry
<1>6. Kept /\ DriftInv'
  BY <1>1, <1>4, SameObjects DEF cluster
<1>7. \A u \in Submissions \ {s} : Untouched(u)
  BY <1>1, <1>3, <1>4 DEF Untouched, tally
<1>8. SubInv(s)'
  <2>1. StageInv(s)'
    <3>1. stage[s] \notin {"new", "local"}
      BY <1>1, <1>2 DEF SubInv, StageInv, NoAsk
    <3> QED BY <1>1, <1>2, <3>1 DEF SubInv, StageInv, tally, ConfiguredQuorum
  <2>2. AskInv(s)'
    <3>1. p # Entry(s)
      BY <1>1, <1>2 DEF SubInv, AskInv
    <3>2. ASSUME NEW q \in Nodes
          PROVE  /\ asks'[s][q] # "none" => /\ q \notin Held(s).mask
                                            /\ q \in todo[s] => stage[s] = "waiting" /\ IsNext(s, q)
                 /\ asks'[s][q] \in Statuses => [sub |-> s, status |-> asks'[s][q]] \in ran[q]
                 /\ asks'[s][q] = "refused" => Entry(s) \in digestsSeen'[q] /\ digest[Entry(s)] # digest[q]
                 /\ Ran(q, s) /\ q # Entry(s) => asks'[s][q] \in Statuses
                 /\ Ran(q, s) => digest[q] = digest[Entry(s)]
      <4>1. CASE q = p
        BY <1>1, <1>2, <1>3, <1>4, <4>1 DEF SubInv, AskInv, Statuses
      <4>2. CASE q # p
        BY <1>2, <1>3, <1>4, <4>2 DEF SubInv, AskInv
      <4> QED BY <4>1, <4>2
    <3>3. /\ todo'[s] = todo[s] /\ stage'[s] = stage[s] /\ Held(s)' = Held(s) /\ Entry(s)' = Entry(s)
          /\ \A q \in Nodes : ran'[q] = ran[q] /\ (Ran(q, s)' <=> Ran(q, s))
                             /\ (IsNext(s, q)' <=> IsNext(s, q))
      BY <1>1, <1>2 DEF Ran, IsNext
    <3>4. Entry(s) \notin todo[s] /\ asks'[s][Entry(s)] = "none"
      BY <1>2, <1>3, <3>1 DEF SubInv, AskInv
    <3> QED BY <3>2, <3>3, <3>4 DEF AskInv
  <2>3. VoteInv(s)'
    BY <1>1, <1>2 DEF SubInv, VoteInv, tally
  <2>4. CountInv(s)'
    BY <1>1, <1>2 DEF SubInv, CountInv, tally, Approving
  <2> QED BY <2>1, <2>2, <2>3, <2>4 DEF SubInv
<1> QED BY <1>5, <1>6, <1>7, <1>8, OneStep

\* A peer of the same rules runs its kernel and answers with what it decided,
\* or with 500.
LEMMA PeerHandlesInv ==
    ASSUME Inv, digest' = digest, NEW s \in Submissions, NEW p \in Nodes, PeerHandles(s, p) PROVE Inv'
<1>1. /\ asks[s][p] = "sent" /\ digest[Entry(s)] = digest[p]
      /\ digestsSeen' = [digestsSeen EXCEPT ![p] = @ \cup {Entry(s)}]
      /\ UNCHANGED <<cluster, stage, held, todo, tally, result, events>>
  BY DEF PeerHandles
<1>2. PICK answer \in Statuses \cup {"error"} :
         /\ asks' = [asks EXCEPT ![s][p] = answer]
         /\ ran' = IF answer = "error" THEN ran
                   ELSE [ran EXCEPT ![p] = @ \cup {[sub |-> s, status |-> answer]}]
  <2>1. PICK verdict \in Verdicts[p] :
           IF verdict = "raises"
             THEN asks' = [asks EXCEPT ![s][p] = "error"] /\ UNCHANGED ran
             ELSE /\ asks' = [asks EXCEPT ![s][p] = verdict]
                  /\ ran' = [ran EXCEPT ![p] = @ \cup {[sub |-> s, status |-> verdict]}]
    BY DEF PeerHandles
  <2>2. verdict \in Statuses \cup {"raises"}
    BY FederationAssumption DEF Statuses
  <2>3. CASE verdict = "raises"
    BY <2>1, <2>3
  <2>4. CASE verdict # "raises"
    BY <2>1, <2>2, <2>4 DEF Statuses
  <2> QED BY <2>3, <2>4
<1>3. /\ TypeInv /\ SubInv(s) /\ Entry(s) \in Nodes /\ Held(s)' = Held(s) /\ Entry(s)' = Entry(s)
  BY <1>1 DEF Inv, TypeInv, TypeOK, Entry, Held, cluster
<1>4. /\ asks' \in [Submissions -> [Nodes -> AskState]]
      /\ asks'[s][p] = answer /\ \A q \in Nodes \ {p} : asks'[s][q] = asks[s][q]
      /\ \A u \in Submissions \ {s} : asks'[u] = asks[u]
  <2>1. answer \in AskState
    BY DEF AskState
  <2> QED BY <1>2, <1>3, <2>1, AnswerEntered
<1>5. /\ digestsSeen' \in [Nodes -> SUBSET Nodes] /\ Entry(s) \in digestsSeen'[p]
      /\ \A m \in Nodes : digestsSeen[m] \subseteq digestsSeen'[m]
  BY <1>1, <1>3, SenderSeen
<1>6. p # Entry(s) /\ ~Ran(p, s)
  BY <1>1, <1>3 DEF SubInv, AskInv, Statuses
<1>7. /\ ran' \in [Nodes -> SUBSET [sub : Submissions, status : Statuses]]
      /\ ran'[p] = ran[p] \cup IF answer = "error" THEN {} ELSE {[sub |-> s, status |-> answer]}
      /\ \A m \in Nodes \ {p} : ran'[m] = ran[m]
  <2> DEFINE d == [sub |-> s, status |-> answer]
  <2>1. ran \in [Nodes -> SUBSET [sub : Submissions, status : Statuses]]
    BY <1>3 DEF TypeInv, TypeOK
  <2>2. CASE answer = "error"
    BY <1>2, <2>1, <2>2
  <2>3. CASE answer # "error"
    <3>1. d \in [sub : Submissions, status : Statuses]
      BY <2>3
    <3> HIDE DEF d
    <3>2. ran' = [ran EXCEPT ![p] = @ \cup {d}]
      BY <1>2, <2>3 DEF d
    <3>3. ran'[p] = ran[p] \cup {d}
      BY <2>1, <3>2
    <3> QED BY <2>1, <2>3, <3>1, <3>2, <3>3 DEF d
  <2> QED BY <2>2, <2>3
<1>8. \A m \in Nodes : /\ ran[m] \subseteq ran'[m]
                       /\ \A d \in ran'[m] : d \in ran[m] \/ d.sub = s
  BY <1>7
<1>9. TypeInv'
  BY <1>1, <1>3, <1>4, <1>5, <1>7 DEF TypeInv, TypeOK, cluster, tally, Current, Entry
<1>10. Kept /\ DriftInv'
  BY <1>1, <1>5, SameObjects DEF cluster
<1>11. \A u \in Submissions \ {s} : Untouched(u)
  BY <1>1, <1>4, <1>5, <1>8 DEF Untouched, tally
<1>12. SubInv(s)'
  <2>1. StageInv(s)'
    <3>1. stage[s] \notin {"new", "local"}
      BY <1>1, <1>3 DEF SubInv, StageInv, NoAsk
    <3> QED BY <1>1, <1>3, <3>1 DEF SubInv, StageInv, tally, ConfiguredQuorum
  <2>2. AskInv(s)'
    <3>1. ASSUME NEW q \in Nodes
          PROVE  /\ asks'[s][q] # "none" => /\ q \notin Held(s).mask
                                            /\ q \in todo[s] => stage[s] = "waiting" /\ IsNext(s, q)
                 /\ asks'[s][q] \in Statuses => [sub |-> s, status |-> asks'[s][q]] \in ran'[q]
                 /\ asks'[s][q] = "refused" => Entry(s) \in digestsSeen'[q] /\ digest[Entry(s)] # digest[q]
                 /\ Ran(q, s)' /\ q # Entry(s) => asks'[s][q] \in Statuses
                 /\ Ran(q, s)' => digest[q] = digest[Entry(s)]
      <4>1. CASE q = p
        <5>1. asks'[s][p] \in Statuses => [sub |-> s, status |-> answer] \in ran'[p]
          BY <1>4, <1>7 DEF Statuses
        <5>2. Ran(p, s)' => answer \in Statuses
          BY <1>6, <1>7 DEF Ran
        <5>3. p \notin Held(s).mask /\ (p \in todo[s] => stage[s] = "waiting" /\ IsNext(s, p))
          BY <1>1, <1>3 DEF SubInv, AskInv
        <5> QED BY <1>1, <1>4, <4>1, <5>1, <5>2, <5>3 DEF Statuses
      <4>2. CASE q # p
        <5>1. Ran(q, s)' <=> Ran(q, s)
          BY <1>7, <4>2 DEF Ran
        <5> QED BY <1>3, <1>4, <1>5, <1>7, <4>2, <5>1 DEF SubInv, AskInv
      <4> QED BY <4>1, <4>2
    <3>2. /\ todo'[s] = todo[s] /\ stage'[s] = stage[s] /\ Held(s)' = Held(s) /\ Entry(s)' = Entry(s)
          /\ \A q \in Nodes : IsNext(s, q)' <=> IsNext(s, q)
      BY <1>1, <1>3 DEF IsNext
    <3>3. Entry(s) # p
      BY <1>1, <1>3 DEF SubInv, AskInv
    <3>4. Entry(s) \notin todo[s] /\ asks'[s][Entry(s)] = "none"
      BY <1>3, <1>4, <3>3 DEF SubInv, AskInv
    <3> QED BY <3>1, <3>2, <3>4 DEF AskInv
  <2>3. VoteInv(s)'
    <3>1. \A v \in votes[s] : v.node \in Nodes
      BY <1>3 DEF TypeInv, TypeOK, Vote
    <3> QED BY <1>1, <1>3, <1>8, <3>1 DEF SubInv, VoteInv, tally
  <2>4. CountInv(s)'
    BY <1>1, <1>3 DEF SubInv, CountInv, tally, Approving
  <2> QED BY <2>1, <2>2, <2>3, <2>4 DEF SubInv
<1> QED BY <1>9, <1>10, <1>11, <1>12, OneStep

\* The loop leaves the peer it waited for: nobody else was asked yet.
LEMMA LeaveFacts ==
    ASSUME Inv, NEW s \in Submissions, NEW p \in todo[s], LeavePeer(s, p)
    PROVE  /\ p \in Nodes /\ stage[s] = "waiting" /\ result[s] = "none"
           /\ todo' \in [Submissions -> SUBSET Nodes] /\ todo'[s] = todo[s] \ {p}
           /\ \A u \in Submissions \ {s} : todo'[u] = todo[u]
           /\ \A q \in todo'[s] : asks[s][q] = "none"
<1>1. /\ stage[s] = "waiting" /\ IsNext(s, p) /\ todo' = [todo EXCEPT ![s] = @ \ {p}]
      /\ todo \in [Submissions -> SUBSET Nodes] /\ SubInv(s)
  BY DEF LeavePeer, Inv, TypeInv, TypeOK
<1>2. \A q \in todo[s] \ {p} : asks[s][q] = "none"
  <2> SUFFICES ASSUME NEW q \in todo[s], q # p, asks[s][q] # "none" PROVE FALSE
    OBVIOUS
  <2>1. q \in Nodes /\ p \in Nodes /\ IsNext(s, q)
    BY <1>1 DEF SubInv, AskInv
  <2>2. Rank[p] <= Rank[q] /\ Rank[q] <= Rank[p] /\ Rank[p] \in Nat /\ Rank[q] \in Nat
    BY <1>1, <2>1, FederationAssumption DEF IsNext
  <2>3. Rank[p] = Rank[q]
    BY <2>2
  <2> QED BY <2>1, <2>3, FederationAssumption
<1> QED BY <1>1, <1>2 DEF SubInv, StageInv

\* A set_partition that is interrupted has no slots left.
LEMMA SwapType ==
    ASSUME TypeInv, NEW n, NEW g, UNCHANGED swap \/ Interrupts(n, g)
    PROVE  swap' \in [mask : SUBSET Nodes, left : SUBSET Nodes]
<1>1. swap \in [mask : SUBSET Nodes, left : SUBSET Nodes]
  BY DEF TypeInv, TypeOK
<1>2. CASE Interrupts(n, g)
  <2>1. swap' = [swap EXCEPT !.left = {}]
    BY <1>2 DEF Interrupts
  <2> QED BY <1>1, <2>1
<1> QED BY <1>1, <1>2

\* An operator clears a drift of a slot's current object.
LEMMA ClearDriftInv ==
    ASSUME Inv, digest' = digest, NEW n \in Nodes, NEW p \in Nodes, ClearDrift(n, p) PROVE Inv'
<1> DEFINE g == Current(n)
           e == [objects[n][g] EXCEPT !.drift = @ \ {p}]
<1>1. /\ UNCHANGED <<stage, held, todo, tally, result, asks, ran, digestsSeen, events>>
      /\ UNCHANGED swap \/ Interrupts(n, g)
      /\ objects' = [objects EXCEPT ![n] = [@ EXCEPT ![g] = e]]
  BY DEF ClearDrift
<1>2. TypeInv /\ g \in 1..Current(n) /\ objects[n][g] \in Object
  BY ObjectType DEF Inv
<1>3. e \in Object /\ e.mask = objects[n][g].mask /\ e.drift \subseteq objects[n][g].drift
  BY <1>2 DEF Object
<1> HIDE DEF e, g
<1>4. /\ objects' \in [Nodes -> Seq(Object)] /\ Kept /\ objects'[n][g] = e
      /\ \A m \in Nodes : Len(objects'[m]) = Len(objects[m])
      /\ \A m \in Nodes : DOMAIN objects'[m] = DOMAIN objects[m]
      /\ \A m \in Nodes, h \in Nat : m # n \/ h # g => objects'[m][h] = objects[m][h]
  <2>1. Becomes(n, g, e)
    BY <1>1, <1>3 DEF Becomes
  <2> QED BY <1>2, <1>3, <2>1, SetObject
<1>5. swap' \in [mask : SUBSET Nodes, left : SUBSET Nodes]
  BY <1>1, <1>2, SwapType
<1>6. TypeInv'
  BY <1>1, <1>4, <1>5 DEF Inv, TypeInv, TypeOK, tally, Entry, Current
<1>7. DriftInv'
  <2>1. ASSUME NEW m \in Nodes, NEW h \in DOMAIN objects'[m]
        PROVE  objects'[m][h].drift \subseteq objects[m][h].drift /\ h \in DOMAIN objects[m]
    <3>1. h \in Nat /\ h \in DOMAIN objects[m]
      BY <1>4, ObjectType DEF Inv
    <3> QED BY <1>3, <1>4, <3>1
  <2> QED BY <1>1, <2>1, OldDrift DEF Inv
<1>8. \A u \in Submissions : Untouched(u)
  BY <1>1 DEF Untouched, tally
<1> QED BY <1>4, <1>6, <1>7, <1>8, Frame DEF Inv

\* A step back to the loop that leaves a peer and the kernels alone.
LEMMA BackInv ==
    ASSUME Inv, digest' = digest, NEW s \in Submissions, NEW p \in todo[s], LeavePeer(s, p), Goto(s, "peers"),
           UNCHANGED <<held, result, asks, ran, digestsSeen>>,
           swap' \in [mask : SUBSET Nodes, left : SUBSET Nodes],
           objects' \in [Nodes -> Seq(Object)], \A n \in Nodes : Len(objects'[n]) = Len(objects[n]),
           Kept, DriftInv',
           votes' \in [Submissions -> SUBSET Vote], refused' \in [Submissions -> SUBSET Nodes],
           approvals' \in [Submissions -> Nat], denials' \in [Submissions -> Nat],
           \A u \in Submissions \ {s} : /\ votes'[u] = votes[u] /\ refused'[u] = refused[u]
                                       /\ approvals'[u] = approvals[u] /\ denials'[u] = denials[u],
           VoteInv(s)', CountInv(s)', events' \in Nat
    PROVE  Inv'
<1>1. /\ p \in Nodes /\ stage[s] = "waiting" /\ result[s] = "none"
      /\ todo' \in [Submissions -> SUBSET Nodes] /\ todo'[s] = todo[s] \ {p}
      /\ \A u \in Submissions \ {s} : todo'[u] = todo[u]
      /\ \A q \in todo'[s] : asks[s][q] = "none"
  BY LeaveFacts
<1>2. TypeInv /\ SubInv(s) /\ Entry(s) \in Nodes /\ Entry(s)' = Entry(s)
  BY DEF Inv, TypeInv, TypeOK, Entry
<1>3. /\ stage' \in [Submissions -> Stages] /\ stage'[s] = "peers"
      /\ \A u \in Submissions \ {s} : stage'[u] = stage[u]
  BY <1>2 DEF Goto, TypeInv, TypeOK, Stages
<1>4. TypeInv'
  BY <1>1, <1>2, <1>3 DEF TypeInv, TypeOK, Current, Entry
<1>5. \A u \in Submissions \ {s} : Untouched(u)
  BY <1>1, <1>3 DEF Untouched
<1>6. Held(s)'.mask = Held(s).mask
  <2>1. held[s].gen \in 1..Len(objects[Entry(s)])
    BY <1>2 DEF TypeInv, TypeOK, Current
  <2> QED BY <1>2, <2>1 DEF Kept, Held, Entry
<1>7. StageInv(s)'
  BY <1>1, <1>3 DEF StageInv
<1>8. AskInv(s)'
  BY <1>1, <1>2, <1>3, <1>6 DEF SubInv, AskInv, Ran
<1> QED BY <1>4, <1>5, <1>7, <1>8, OneStep DEF SubInv

\* A vote comes back.
LEMMA TakeVoteInv == ASSUME Inv, digest' = digest, NEW s \in Submissions, TakeVote(s) PROVE Inv'
<1>1. PICK p \in todo[s] : LeavePeer(s, p) /\ asks[s][p] \in Statuses /\ Count(s, p, asks[s][p])
  BY DEF TakeVote
<1>2. Goto(s, "peers") /\ UNCHANGED <<cluster, held, result, asks, ran, digestsSeen, events>>
  BY DEF TakeVote
<1>3. /\ p \in Nodes /\ todo'[s] = todo[s] \ {p}
  BY <1>1, LeaveFacts
<1>4. /\ TypeInv /\ SubInv(s) /\ Held(s)' = Held(s)
  BY <1>2 DEF Inv, Held, Entry, cluster
<1> DEFINE status == asks[s][p]
           v == [node |-> p, status |-> status]
<1>5. \A w \in votes[s] : w.node # p
  BY <1>4 DEF SubInv, VoteInv
<1>6. /\ votes' \in [Submissions -> SUBSET Vote]
      /\ votes'[s] = votes[s] \cup {v}
      /\ approvals' \in [Submissions -> Nat] /\ denials' \in [Submissions -> Nat]
      /\ refused' = refused
      /\ \A u \in Submissions \ {s} : /\ votes'[u] = votes[u]
                                     /\ approvals'[u] = approvals[u]
                                     /\ denials'[u] = denials[u]
      /\ CountInv(s)'
  <2>1. CountInv(s) /\ status \in Statuses /\ Count(s, p, status)
    BY <1>1, <1>4 DEF SubInv
  <2> HIDE DEF status
  <2> QED BY <1>3, <1>4, <1>5, <2>1, CountVote
<1>7. v.node = p /\ v.status = status /\ [sub |-> s, status |-> status] \in ran[p]
      /\ p \notin refused[s] /\ p \notin Held(s).mask
  <2>1. asks[s][p] # "none"
    BY <1>1 DEF Statuses
  <2> QED BY <1>1, <1>3, <1>4, <2>1 DEF SubInv, AskInv, VoteInv
<1> HIDE DEF v, status
<1>8. VoteInv(s)'
  <2>1. \A w \in votes'[s] : /\ [sub |-> s, status |-> w.status] \in ran[w.node]
                             /\ w.node \notin refused[s] /\ w.node \notin todo[s] \ {p}
                             /\ w.node \notin Held(s).mask
    BY <1>4, <1>6, <1>7 DEF SubInv, VoteInv
  <2>2. \A x, w \in votes'[s] : x.node = w.node => x = w
    BY <1>4, <1>5, <1>6, <1>7 DEF SubInv, VoteInv
  <2> QED BY <1>2, <1>3, <1>4, <1>6, <2>1, <2>2 DEF SubInv, VoteInv
<1>9. Kept /\ DriftInv'
  BY <1>2, SameObjects DEF cluster
<1>10. /\ objects' \in [Nodes -> Seq(Object)] /\ \A n \in Nodes : Len(objects'[n]) = Len(objects[n])
       /\ refused' \in [Submissions -> SUBSET Nodes] /\ events' \in Nat
       /\ swap' \in [mask : SUBSET Nodes, left : SUBSET Nodes]
  BY <1>2, <1>4, <1>6 DEF cluster, TypeInv, TypeOK
<1> QED BY <1>1, <1>2, <1>6, <1>8, <1>9, <1>10, BackInv DEF cluster

\* Nothing comes back that counts.
LEMMA UncountedInv ==
    ASSUME Inv, digest' = digest, NEW s \in Submissions, NEW p \in todo[s], LeavePeer(s, p), Goto(s, "peers"),
           UNCHANGED <<cluster, held, tally, result, asks, ran, digestsSeen>>,
           events' \in Nat
    PROVE  Inv'
<1>1. todo'[s] = todo[s] \ {p} /\ TypeInv /\ SubInv(s) /\ Held(s)' = Held(s)
  BY LeaveFacts DEF Inv, Held, Entry, cluster
<1>2. Kept /\ DriftInv'
  BY SameObjects DEF cluster
<1>3. VoteInv(s)' /\ CountInv(s)'
  BY <1>1 DEF SubInv, VoteInv, CountInv, tally, Approving
<1>4. /\ objects' \in [Nodes -> Seq(Object)] /\ \A n \in Nodes : Len(objects'[n]) = Len(objects[n])
      /\ votes' \in [Submissions -> SUBSET Vote] /\ refused' \in [Submissions -> SUBSET Nodes]
      /\ approvals' \in [Submissions -> Nat] /\ denials' \in [Submissions -> Nat]
      /\ swap' \in [mask : SUBSET Nodes, left : SUBSET Nodes]
  BY <1>1 DEF cluster, tally, TypeInv, TypeOK
<1> QED BY <1>2, <1>3, <1>4, BackInv DEF cluster, tally

\* A 500 comes back.
LEMMA TakeErrorInv == ASSUME Inv, digest' = digest, NEW s \in Submissions, TakeError(s) PROVE Inv'
<1>1. PICK p \in todo[s] : LeavePeer(s, p)
  BY DEF TakeError
<1>2. events' \in Nat
  BY DEF TakeError, Inv, TypeInv, TypeOK
<1> QED BY <1>1, <1>2, UncountedInv DEF TakeError

\* A call fails.
LEMMA CallFailsInv == ASSUME Inv, digest' = digest, NEW s \in Submissions, CallFails(s) PROVE Inv'
<1>1. PICK p \in todo[s] : LeavePeer(s, p)
  BY DEF CallFails
<1>2. events' \in Nat
  BY DEF CallFails, Happens, Inv, TypeInv, TypeOK
<1> QED BY <1>1, <1>2, UncountedInv DEF CallFails

\* A 409 comes back: the drift is recorded and counted.
LEMMA TakeRefusalInv == ASSUME Inv, digest' = digest, NEW s \in Submissions, TakeRefusal(s) PROVE Inv'
<1> DEFINE n == Entry(s)
           g == held[s].gen
<1>1. PICK p \in todo[s] : /\ LeavePeer(s, p) /\ asks[s][p] = "refused"
                           /\ refused' = [refused EXCEPT ![s] = @ \cup {p}]
                           /\ objects' = [objects EXCEPT ![n][g].drift = @ \cup {p}]
                           /\ UNCHANGED swap \/ Interrupts(n, g)
  BY DEF TakeRefusal
<1>2. /\ denials' = [denials EXCEPT ![s] = @ + 1] /\ Goto(s, "peers")
      /\ UNCHANGED <<held, votes, approvals, result, asks, ran, digestsSeen, events>>
  BY DEF TakeRefusal
<1>3. p \in Nodes /\ todo'[s] = todo[s] \ {p}
  BY <1>1, LeaveFacts
<1>4. /\ TypeInv /\ SubInv(s) /\ n \in Nodes /\ g \in 1..Current(n) /\ n' = n /\ g' = g
  BY <1>2 DEF Inv, TypeInv, TypeOK, Entry, Current
<1> DEFINE e == [objects[n][g] EXCEPT !.drift = @ \cup {p}]
<1>5. objects[n][g] \in Object
  BY <1>4, ObjectType
<1>6. e \in Object /\ e.mask = objects[n][g].mask /\ e.drift = objects[n][g].drift \cup {p}
  BY <1>3, <1>5 DEF Object
<1>7. objects' = [objects EXCEPT ![n] = [@ EXCEPT ![g] = e]]
  BY <1>1
<1> HIDE DEF e, n, g
<1>8. /\ objects' \in [Nodes -> Seq(Object)]
      /\ \A m \in Nodes : Len(objects'[m]) = Len(objects[m])
      /\ \A m \in Nodes : DOMAIN objects'[m] = DOMAIN objects[m]
      /\ objects'[n][g] = e
      /\ \A m \in Nodes, h \in Nat : m # n \/ h # g => objects'[m][h] = objects[m][h]
      /\ Kept
  <2>1. Becomes(n, g, e)
    BY <1>6, <1>7 DEF Becomes
  <2> QED BY <1>4, <1>6, <2>1, SetObject
<1>9. /\ n \in digestsSeen[p] /\ digest[n] # digest[p]
      /\ \A v \in votes[s] : v.node # p
  BY <1>1, <1>3, <1>4 DEF SubInv, AskInv, VoteInv, n
<1>10. p \notin refused[s]
  <2>1. refused[s] \cap todo[s] = {}
    BY <1>4 DEF SubInv, VoteInv
  <2> QED BY <2>1
<1>11. DriftInv'
  <2> SUFFICES ASSUME NEW m \in Nodes, NEW h \in DOMAIN objects'[m], NEW q \in objects'[m][h].drift
               PROVE  m \in digestsSeen[q] /\ digest[m] # digest[q]
    BY <1>2 DEF DriftInv, DriftAttribution
  <2>1. h \in DOMAIN objects[m] /\ h \in Nat
    BY <1>4, <1>8, ObjectType
  <2>2. q \in objects[m][h].drift \/ (m = n /\ q = p)
    BY <1>6, <1>8, <2>1
  <2> QED BY <1>9, <2>1, <2>2 DEF Inv, DriftInv, DriftAttribution
<1>12. /\ refused' \in [Submissions -> SUBSET Nodes] /\ refused'[s] = refused[s] \cup {p}
       /\ denials' \in [Submissions -> Nat] /\ denials'[s] = denials[s] + 1
       /\ \A u \in Submissions \ {s} : refused'[u] = refused[u] /\ denials'[u] = denials[u]
  BY <1>1, <1>2, <1>3, <1>4 DEF TypeInv, TypeOK
<1>13. Held(s) = objects[n][g] /\ Held(s)' = e
  BY <1>2, <1>4, <1>8 DEF Held, Entry, n, g
<1>14. VoteInv(s)'
  <2>1. \A v \in votes[s] : /\ [sub |-> s, status |-> v.status] \in ran[v.node]
                            /\ v.node \notin refused'[s] /\ v.node \notin todo'[s]
                            /\ v.node \notin Held(s)'.mask
    BY <1>3, <1>4, <1>6, <1>9, <1>12, <1>13 DEF SubInv, VoteInv
  <2>2. refused'[s] \cap todo'[s] = {}
    BY <1>3, <1>4, <1>6, <1>12, <1>13 DEF SubInv, VoteInv
  <2> QED BY <1>2, <1>4, <2>1, <2>2 DEF SubInv, VoteInv
<1>15. CountInv(s)'
  <2>1. IsFiniteSet(refused[s]) /\ IsFiniteSet(votes[s])
    BY <1>4 DEF SubInv, CountInv
  <2>2. /\ IsFiniteSet(refused'[s]) /\ Cardinality(refused'[s]) = Cardinality(refused[s]) + 1
        /\ Cardinality(refused[s]) \in Nat /\ Cardinality(votes[s]) \in Nat
    BY <1>10, <1>12, <2>1, FS_AddElement, FS_CardinalityType
  <2>3. approvals[s] \in Nat /\ denials[s] \in Nat
    BY <1>4 DEF TypeInv, TypeOK
  <2>4. approvals[s] + denials[s] = Cardinality(votes[s]) + Cardinality(refused[s])
    BY <1>4 DEF SubInv, CountInv
  <2>5. approvals[s] + denials'[s] = Cardinality(votes[s]) + Cardinality(refused'[s])
    BY <1>12, <2>2, <2>3, <2>4
  <2> QED BY <1>2, <1>4, <2>1, <2>2, <2>5 DEF SubInv, CountInv, Approving
<1>16. /\ votes' \in [Submissions -> SUBSET Vote] /\ approvals' \in [Submissions -> Nat]
       /\ events' \in Nat
  BY <1>2, <1>4 DEF TypeInv, TypeOK
<1>17. swap' \in [mask : SUBSET Nodes, left : SUBSET Nodes]
  BY <1>1, <1>4, SwapType
<1> QED BY <1>1, <1>2, <1>8, <1>11, <1>12, <1>14, <1>15, <1>16, <1>17, BackInv

\* An answer that cannot be read ends the submission.
LEMMA CallBreaksInv == ASSUME Inv, digest' = digest, NEW s \in Submissions, CallBreaks(s) PROVE Inv'
<1>1. PICK p \in todo[s] : LeavePeer(s, p)
  BY DEF CallBreaks
<1>2. /\ Finish(s, "aborted") /\ events' \in Nat
      /\ UNCHANGED <<cluster, held, tally, asks, ran, digestsSeen>>
  BY DEF CallBreaks, Happens, Inv, TypeInv, TypeOK
<1>3. /\ stage[s] = "waiting" /\ todo' \in [Submissions -> SUBSET Nodes]
      /\ todo'[s] = todo[s] \ {p} /\ \A u \in Submissions \ {s} : todo'[u] = todo[u]
      /\ \A q \in todo'[s] : asks[s][q] = "none"
  BY <1>1, LeaveFacts
<1>4. "aborted" \in Results \ {"none"} /\ stage[s] # "done" /\ todo'[s] \subseteq todo[s]
  BY <1>3 DEF Results
<1> QED BY <1>2, <1>3, <1>4, FinishInv

\* The votes are tallied.
LEMMA TallyInv == ASSUME Inv, digest' = digest, NEW s \in Submissions, Tally(s) PROVE Inv'
<1> DEFINE outcome == IF Visible(s) < ConfiguredQuorum         THEN "unreachable"
                      ELSE IF approvals[s] >= ConfiguredQuorum THEN "allowed"
                      ELSE "denied"
<1>1. /\ stage[s] = "peers" /\ todo[s] = {} /\ Finish(s, outcome)
      /\ UNCHANGED <<cluster, held, todo, tally, asks, ran, digestsSeen, events>>
  BY DEF Tally
<1>2. outcome \in Results \ {"none"} /\ (outcome = "allowed" => approvals[s] >= ConfiguredQuorum)
  BY DEF Results
<1>3. todo \in [Submissions -> SUBSET Nodes] /\ events \in Nat /\ stage[s] # "done"
  BY <1>1 DEF Inv, TypeInv, TypeOK
<1> HIDE DEF outcome
<1> QED BY <1>1, <1>2, <1>3, FinishInv

\* A cluster that starts.
LEMMA InitInv == Init => Inv
<1> SUFFICES ASSUME Init PROVE Inv
  OBVIOUS
<1> DEFINE first == [n \in Nodes |-> [mask |-> {}, seen |-> Nodes \ {n}, drift |-> {}]]
<1>1. /\ objects = [n \in Nodes |-> <<first[n]>>]
      /\ \A n \in Nodes : first[n] \in Object /\ first[n].drift = {} /\ first[n].mask = {}
  BY DEF Init, Object
<1> HIDE DEF first
<1>2. /\ objects \in [Nodes -> Seq(Object)]
      /\ \A n \in Nodes : Len(objects[n]) = 1 /\ DOMAIN objects[n] = {1} /\ objects[n][1] = first[n]
  BY <1>1
<1>3. /\ digest \in [Nodes -> STRING]
      /\ held \in [Submissions -> [entry : Nodes, gen : {1}]]
      /\ \A s \in Submissions : Entry(s) \in Nodes /\ held[s].gen = 1 /\ Held(s) = first[Entry(s)]
  <2>1. PICK start \in Starts :
           /\ digest = start.digest
           /\ held = [s \in Submissions |-> [entry |-> start.entry[s], gen |-> 1]]
    BY DEF Init
  <2>2. start.digest \in [Nodes -> STRING] /\ start.entry \in [Submissions -> Nodes]
    BY FederationAssumption
  <2>3. \A s \in Submissions : held[s] = [entry |-> start.entry[s], gen |-> 1] /\ start.entry[s] \in Nodes
    BY <2>1, <2>2
  <2>4. held \in [Submissions -> [entry : Nodes, gen : {1}]]
    BY <2>1, <2>2
  <2> QED BY <1>2, <2>1, <2>2, <2>3, <2>4 DEF Entry, Held
<1>4. TypeInv
  <2>1. held \in [Submissions -> [entry : Nodes, gen : Nat \ {0}]]
    <3>1. {1} \subseteq Nat \ {0}
      OBVIOUS
    <3> QED BY <1>3, <3>1
  <2>2. \A s \in Submissions : held[s].gen <= Current(Entry(s))
    BY <1>2, <1>3 DEF Current
  <2>3. /\ swap \in [mask : SUBSET Nodes, left : SUBSET Nodes]
        /\ stage \in [Submissions -> Stages] /\ todo \in [Submissions -> SUBSET Nodes]
    BY DEF Init, Stages
  <2>4. /\ votes \in [Submissions -> SUBSET Vote] /\ refused \in [Submissions -> SUBSET Nodes]
        /\ approvals \in [Submissions -> Nat] /\ denials \in [Submissions -> Nat]
        /\ result \in [Submissions -> Results]
    BY DEF Init, Results
  <2>5. /\ asks \in [Submissions -> [Nodes -> AskState]]
        /\ ran \in [Nodes -> SUBSET [sub : Submissions, status : Statuses]]
        /\ digestsSeen \in [Nodes -> SUBSET Nodes]
    BY DEF Init, AskState, NoAsk
  <2>6. events \in Nat
    BY DEF Init
  <2>7. TypeOK
    BY <1>2, <1>3, <2>1, <2>2, <2>3, <2>4, <2>5, <2>6 DEF TypeOK
  <2> QED BY <1>2, <2>7 DEF TypeInv, Current
<1>5. DriftInv
  BY <1>1, <1>2 DEF DriftInv, DriftAttribution
<1>6. ASSUME NEW s \in Submissions PROVE SubInv(s)
  <2>1. StageInv(s)
    BY <1>3 DEF Init, StageInv, Ran
  <2>2. AskInv(s)
    BY <1>3 DEF Init, AskInv, NoAsk, Statuses, Ran
  <2>3. VoteInv(s)
    BY <1>3 DEF Init, VoteInv
  <2>4. CountInv(s)
    <3>1. Approving(s) = {} /\ votes[s] = {} /\ refused[s] = {} /\ approvals[s] = 0 /\ denials[s] = 0
      BY DEF Init, Approving
    <3> QED BY <3>1, FS_EmptySet DEF CountInv
  <2> QED BY <2>1, <2>2, <2>3, <2>4 DEF SubInv
<1> QED BY <1>4, <1>5, <1>6 DEF Inv

\* No step changes the rules of a node.
LEMMA RulesStay == [Next]_vars => digest' = digest
BY DEF Next, Submit, Begin, DecideLocally, LocalRaises, SkipPeer, AskPeer, TakeVote,
       TakeRefusal, TakeError, CallFails, CallBreaks, Tally, Answer, PeerRefuses,
       PeerHandles, SetPartition, SwapSlot, ClearDrift, Expire, Heartbeat, cluster, vars

\* Every step keeps the invariant.
LEMMA StepInv == Inv /\ [Next]_vars => Inv'
<1> SUFFICES ASSUME Inv, [Next]_vars PROVE Inv'
  OBVIOUS
<1>0. digest' = digest
  BY RulesStay
<1>1. CASE \E s \in Submissions : Submit(s)
  <2> PICK s \in Submissions : Submit(s)
    BY <1>1
  <2> QED BY <1>0, BeginInv, DecideLocallyInv, LocalRaisesInv, SkipPeerInv, AskPeerInv, TakeVoteInv,
             TakeRefusalInv, TakeErrorInv, CallFailsInv, CallBreaksInv, TallyInv DEF Submit
<1>2. CASE \E s \in Submissions, p \in Nodes : Answer(s, p)
  BY <1>0, <1>2, PeerRefusesInv, PeerHandlesInv DEF Answer
<1>3. CASE SetPartition
  BY <1>0, <1>3, SetPartitionInv
<1>4. CASE SwapSlot
  BY <1>0, <1>4, SwapSlotInv
<1>5. CASE \E n, p \in Nodes : ClearDrift(n, p) \/ Expire(n, p)
  BY <1>0, <1>5, ClearDriftInv, ExpireInv
<1>6. CASE \E p \in Nodes : Heartbeat(p)
  BY <1>0, <1>6, HeartbeatInv
<1>7. CASE UNCHANGED vars
  BY <1>7, Stutter
<1> QED BY <1>1, <1>2, <1>3, <1>4, <1>5, <1>6, <1>7 DEF Next

\* The invariant holds of every behaviour of the federation.
THEOREM InvCorrect == Spec => []Inv
BY InitInv, StepInv, PTL DEF Spec

-----------------------------------------------------------------------------
\* The nodes that a submission's approving votes name have it allowed in their
\* logs, with the entry's rules, and are as many as the approvals.
LEMMA Approvers ==
    ASSUME Inv, NEW s \in Submissions, NEW side \in SUBSET Nodes,
           \A v \in votes[s] : v.node \in side
    PROVE  LET named == {n \in side : Allowed(n, s) /\ digest[n] = digest[Entry(s)]}
           IN  Cardinality(named) >= approvals[s] /\ Cardinality(named) \in Nat
<1> DEFINE named == {n \in side : Allowed(n, s) /\ digest[n] = digest[Entry(s)]}
           of    == [v \in Approving(s) |-> v.node]
<1>1. TypeInv /\ SubInv(s)
  BY DEF Inv
<1>2. IsFiniteSet(named)
  <2>1. named \in SUBSET Nodes /\ IsFiniteSet(Nodes)
    BY FederationAssumption
  <2> QED BY <2>1, FS_Subset
<1>3. \A v \in Approving(s) : v.node \in named
  <2> TAKE v \in Approving(s)
  <2>1. v \in votes[s] /\ v.status = "allowed" /\ v.node \in Nodes
    BY <1>1 DEF Approving, TypeInv, TypeOK, Vote
  <2>2. Allowed(v.node, s)
    BY <1>1, <2>1 DEF SubInv, VoteInv, Allowed
  <2>3. Ran(v.node, s)
    BY <2>2 DEF Ran, Allowed
  <2> QED BY <1>1, <2>1, <2>2, <2>3 DEF SubInv, AskInv
<1>4. \A v, w \in Approving(s) : v.node = w.node => v = w
  BY <1>1 DEF SubInv, VoteInv, Approving
<1>5. of \in Injection(Approving(s), named)
  BY <1>3, <1>4 DEF Injection, IsInjective
<1>6. Cardinality(Approving(s)) <= Cardinality(named)
  BY <1>2, <1>5, FS_Injection
<1>7. Cardinality(named) \in Nat /\ approvals[s] = Cardinality(Approving(s))
  BY <1>1, <1>2, FS_CardinalityType DEF SubInv, CountInv
<1> QED BY <1>6, <1>7

\* Two majorities of the nodes share one.
LEMMA QuorumType == Cardinality(Nodes) \in Nat /\ ConfiguredQuorum \in Nat
                    /\ ConfiguredQuorum + ConfiguredQuorum > Cardinality(Nodes)
<1> DEFINE N == Cardinality(Nodes)
<1>1. N \in Nat
  BY FederationAssumption, FS_CardinalityType
<1>2. ConfiguredQuorum = N \div 2 + 1
  BY DEF ConfiguredQuorum
<1> HIDE DEF N
<1>3. N \div 2 \in Nat /\ 2 * (N \div 2) + 1 >= N
  BY <1>1
<1>4. ConfiguredQuorum \in Nat /\ ConfiguredQuorum + ConfiguredQuorum > N
  BY <1>1, <1>2, <1>3
<1> QED BY <1>1, <1>4 DEF N

\* An allowed submission has its majority, and outside its mask.
LEMMA AllowedMajority ==
    ASSUME Inv, NEW s \in Submissions, result[s] = "allowed"
    PROVE  /\ Cardinality({n \in Nodes : Allowed(n, s) /\ digest[n] = digest[Entry(s)]})
                >= ConfiguredQuorum
           /\ Cardinality({n \in Nodes \ Held(s).mask : Allowed(n, s)}) >= ConfiguredQuorum
<1> DEFINE side  == Nodes \ Held(s).mask
           all   == {n \in Nodes : Allowed(n, s) /\ digest[n] = digest[Entry(s)]}
           some  == {n \in side : Allowed(n, s) /\ digest[n] = digest[Entry(s)]}
           alive == {n \in side : Allowed(n, s)}
<1>1. TypeInv /\ SubInv(s)
  BY DEF Inv
<1>2. approvals[s] >= ConfiguredQuorum /\ approvals[s] \in Nat /\ ConfiguredQuorum \in Nat
  BY <1>1, QuorumType DEF SubInv, StageInv, TypeInv, TypeOK
<1>3. \A v \in votes[s] : v.node \in Nodes /\ v.node \in side
  <2>1. \A v \in votes[s] : v.node \in Nodes
    BY <1>1 DEF TypeInv, TypeOK, Vote
  <2>2. \A v \in votes[s] : v.node \notin Held(s).mask
    BY <1>1 DEF SubInv, VoteInv
  <2> QED BY <2>1, <2>2
<1>4. Cardinality(some) >= approvals[s] /\ Cardinality(some) \in Nat
  <2>1. side \in SUBSET Nodes /\ \A v \in votes[s] : v.node \in side
    BY <1>3
  <2> HIDE DEF side
  <2> QED BY <2>1, Approvers
<1>5. Cardinality(all) >= approvals[s] /\ Cardinality(all) \in Nat
  <2>1. Nodes \in SUBSET Nodes /\ \A v \in votes[s] : v.node \in Nodes
    BY <1>3
  <2> QED BY <2>1, Approvers
<1>6. Cardinality(some) <= Cardinality(alive) /\ Cardinality(alive) \in Nat
  <2>1. alive \in SUBSET Nodes /\ some \in SUBSET alive /\ IsFiniteSet(Nodes)
    BY FederationAssumption
  <2>2. IsFiniteSet(alive)
    BY <2>1, FS_Subset
  <2> QED BY <2>1, <2>2, FS_Subset, FS_CardinalityType
<1> HIDE DEF side, all, some, alive
<1>7. Cardinality(all) >= ConfiguredQuorum /\ Cardinality(alive) >= ConfiguredQuorum
  BY <1>2, <1>4, <1>5, <1>6
<1> QED BY <1>7 DEF all, alive, side

-----------------------------------------------------------------------------
\* Every variable keeps its type, and every submission uses an object there is.
THEOREM TypeOKCorrect == Spec => []TypeOK
<1>1. Inv => TypeOK
  BY DEF Inv, TypeInv
<1> QED BY <1>1, InvCorrect, PTL

\* For every cluster: ALLOWED is told only when a majority of the configured
\* nodes with the entry's rules have it allowed in their logs.
THEOREM AllowedHasQuorumCorrect == Spec => []AllowedHasQuorum
<1>1. Inv => AllowedHasQuorum
  BY AllowedMajority DEF AllowedHasQuorum
<1> QED BY <1>1, InvCorrect, PTL

\* For every cluster: the counters of a tally agree with the votes, and the
\* votes with the logs.
THEOREM TallyIsHonestCorrect == Spec => []TallyIsHonest
<1>1. Inv => TallyIsHonest
  BY DEF Inv, SubInv, VoteInv, CountInv, TallyIsHonest
<1> QED BY <1>1, InvCorrect, PTL

\* For every cluster: a majority of the nodes that the partition leaves alive has
\* what is allowed as allowed in their own logs.
THEOREM DeadVotesDoNotCountCorrect == Spec => []DeadVotesDoNotCount
<1>1. Inv => DeadVotesDoNotCount
  BY AllowedMajority DEF DeadVotesDoNotCount
<1> QED BY <1>1, InvCorrect, PTL

\* For every cluster: any two allowed requests share a node that allowed both.
THEOREM QuorumsIntersectCorrect == Spec => []QuorumsIntersect
<1>1. ASSUME Inv PROVE QuorumsIntersect
  <2> SUFFICES ASSUME NEW s \in Submissions, NEW u \in Submissions,
                      result[s] = "allowed", result[u] = "allowed"
               PROVE  \E n \in Nodes : Allowed(n, s) /\ Allowed(n, u)
    BY DEF QuorumsIntersect
  <2> DEFINE of(t) == {n \in Nodes : Allowed(n, t) /\ digest[n] = digest[Entry(t)]}
  <2>1. Cardinality(of(s)) >= ConfiguredQuorum /\ Cardinality(of(u)) >= ConfiguredQuorum
    BY <1>1, AllowedMajority
  <2>2. of(s) \in SUBSET Nodes /\ of(u) \in SUBSET Nodes /\ IsFiniteSet(Nodes)
    BY FederationAssumption
  <2>3. Cardinality(of(s)) \in Nat /\ Cardinality(of(u)) \in Nat
    BY <2>2, FS_Subset, FS_CardinalityType
  <2>4. \A n \in of(s) \cap of(u) : n \in Nodes /\ Allowed(n, s) /\ Allowed(n, u)
    OBVIOUS
  <2> HIDE DEF of
  <2>5. Cardinality(of(s)) + Cardinality(of(u)) > Cardinality(Nodes)
    BY <2>1, <2>3, QuorumType
  <2>6. of(s) \cap of(u) # {}
    BY <2>2, <2>5, FS_MajoritiesIntersect
  <2> QED BY <2>4, <2>6
<1> QED BY <1>1, InvCorrect, PTL

\* For every cluster: both ends of a recorded drift know of it.
THEOREM DriftAttributionCorrect == Spec => []DriftAttribution
<1>1. Inv => DriftAttribution
  BY DEF Inv, DriftInv
<1> QED BY <1>1, InvCorrect, PTL

-----------------------------------------------------------------------------
\* What the promise sees of a submission's result.
Told(s) == IF result[s] \in {"none", "allowed"} THEN result[s] ELSE "refused"

\* A kernel that decides a request for the first time keeps the promise.
LEMMA HandleKept ==
    ASSUME NEW n \in Nodes, NEW s \in Submissions, NEW status \in Statuses,
           ~Ran(n, s), UNCHANGED result,
           ran' = [ran EXCEPT ![n] = @ \cup {[sub |-> s, status |-> status]}]
    PROVE  Promise!VoteNext
<1>1. Promise!Handle(n, s)
  BY DEF Promise!Handle, Ran
<1> QED BY <1>1 DEF Promise!VoteNext

\* A submission that ends keeps it, when as many kernels as needed have allowed
\* what is told as allowed.
LEMMA PublishKept ==
    ASSUME Inv, NEW s \in Submissions, NEW outcome \in Results \ {"none"},
           Finish(s, outcome), stage[s] # "done", UNCHANGED ran,
           outcome = "allowed" =>
              Cardinality({n \in Nodes : Allowed(n, s)}) >= ConfiguredQuorum
    PROVE  Promise!VoteNext
<1> DEFINE told == [u \in Submissions |-> Told(u)]
<1>1. result[s] = "none" /\ result \in [Submissions -> Results]
  BY DEF Inv, SubInv, StageInv, TypeInv, TypeOK
<1>2. result' = [result EXCEPT ![s] = outcome]
  BY DEF Finish
<1>3. told[s] = "none"
  BY <1>1 DEF Told
<1>4. told' = [told EXCEPT ![s] = IF outcome = "allowed" THEN "allowed" ELSE "refused"]
  <2>1. \A u \in Submissions : Told(u)' = IF u = s THEN IF outcome = "allowed" THEN "allowed" ELSE "refused"
                                                   ELSE Told(u)
    BY <1>1, <1>2 DEF Told
  <2> QED BY <2>1
<1>5. Promise!Approvers(s) = {n \in Nodes : Allowed(n, s)}
  BY DEF Promise!Approvers, Allowed
<1>6. Promise!Publish(s)
  <2>1. \A S : Promise!Cardinality(S) = Cardinality(S)
    BY DEF Promise!Cardinality, Cardinality
  <2>2. outcome = "allowed" => Promise!Cardinality(Promise!Approvers(s)) >= ConfiguredQuorum
    BY <1>5, <2>1
  <2>3. told = [u \in Submissions |-> IF result[u] \in {"none", "allowed"} THEN result[u] ELSE "refused"]
    BY DEF Told
  <2>4. told' = [u \in Submissions |-> IF result'[u] \in {"none", "allowed"} THEN result'[u] ELSE "refused"]
    BY DEF Told
  <2>5. \/ outcome = "allowed" /\ told' = [told EXCEPT ![s] = "allowed"]
        \/ told' = [told EXCEPT ![s] = "refused"]
    BY <1>4
  <2> HIDE DEF told
  <2> QED BY <1>3, <2>2, <2>3, <2>4, <2>5 DEF Promise!Publish
<1> QED BY <1>6 DEF Promise!VoteNext

\* The votes tallied as allowed are of as many kernels as needed.
LEMMA TallyKept == ASSUME Inv, NEW s \in Submissions, Tally(s) PROVE Promise!VoteNext
<1> DEFINE outcome == IF Visible(s) < ConfiguredQuorum         THEN "unreachable"
                      ELSE IF approvals[s] >= ConfiguredQuorum THEN "allowed"
                      ELSE "denied"
           named == {n \in Nodes : Allowed(n, s) /\ digest[n] = digest[Entry(s)]}
           all   == {n \in Nodes : Allowed(n, s)}
<1>1. Finish(s, outcome) /\ stage[s] # "done" /\ UNCHANGED ran
  BY DEF Tally
<1>2. outcome \in Results \ {"none"} /\ (outcome = "allowed" => approvals[s] >= ConfiguredQuorum)
  BY DEF Results
<1>3. \A v \in votes[s] : v.node \in Nodes
  BY DEF Inv, TypeInv, TypeOK, Vote
<1>4. Nodes \in SUBSET Nodes
  OBVIOUS
<1>5. Cardinality(named) >= approvals[s] /\ Cardinality(named) \in Nat
  BY <1>3, <1>4, Approvers
<1>6. Cardinality(named) <= Cardinality(all) /\ Cardinality(all) \in Nat
  <2>1. named \in SUBSET all /\ all \in SUBSET Nodes /\ IsFiniteSet(Nodes)
    BY FederationAssumption
  <2>2. IsFiniteSet(all)
    BY <2>1, FS_Subset
  <2> QED BY <2>1, <2>2, FS_Subset, FS_CardinalityType
<1>7. approvals[s] \in Nat /\ ConfiguredQuorum \in Nat
  BY QuorumType DEF Inv, TypeInv, TypeOK
<1> HIDE DEF outcome, named, all
<1>8. outcome = "allowed" => Cardinality(all) >= ConfiguredQuorum
  BY <1>2, <1>5, <1>6, <1>7
<1> QED BY <1>1, <1>2, <1>8, PublishKept DEF all

\* Every step of the federation is a step of the promise, or none it sees.
LEMMA PromiseStep == Inv /\ [Next]_vars => [Promise!VoteNext]_Promise!voteVars
<1> SUFFICES ASSUME Inv, [Next]_vars PROVE Promise!VoteNext \/ UNCHANGED Promise!voteVars
  OBVIOUS
<1>1. UNCHANGED <<ran, result>> => UNCHANGED Promise!voteVars
  BY DEF Promise!voteVars
<1>2. ASSUME NEW s \in Submissions, Submit(s) PROVE Promise!VoteNext \/ UNCHANGED <<ran, result>>
  <2>1. CASE DecideLocally(s)
    <3>1. PICK status \in Verdicts[Entry(s)] \ {"raises"} :
             ran' = [ran EXCEPT ![Entry(s)] = @ \cup {[sub |-> s, status |-> status]}]
      BY <2>1 DEF DecideLocally
    <3>2. stage[s] = "local" /\ UNCHANGED result
      BY <2>1 DEF DecideLocally
    <3>3. Entry(s) \in Nodes /\ status \in Statuses
      BY FederationAssumption DEF Inv, TypeInv, TypeOK, Entry, Statuses
    <3>4. ~Ran(Entry(s), s)
      BY <3>2 DEF Inv, SubInv, StageInv
    <3> QED BY <3>1, <3>2, <3>3, <3>4, HandleKept
  <2>2. CASE LocalRaises(s)
    <3>1. "aborted" \in Results \ {"none"} /\ Finish(s, "aborted") /\ stage[s] # "done" /\ UNCHANGED ran
      BY <2>2 DEF LocalRaises, Results
    <3> QED BY <3>1, PublishKept
  <2>3. CASE CallBreaks(s)
    <3>1. "aborted" \in Results \ {"none"} /\ Finish(s, "aborted") /\ stage[s] # "done" /\ UNCHANGED ran
      BY <2>3 DEF CallBreaks, LeavePeer, Results
    <3> QED BY <3>1, PublishKept
  <2>4. CASE Tally(s)
    BY <2>4, TallyKept
  <2>5. CASE Begin(s) \/ SkipPeer(s) \/ AskPeer(s)
    BY <2>5 DEF Begin, SkipPeer, AskPeer
  <2>6. CASE TakeVote(s) \/ TakeRefusal(s) \/ TakeError(s) \/ CallFails(s)
    BY <2>6 DEF TakeVote, TakeRefusal, TakeError, CallFails
  <2> QED BY <1>2, <2>1, <2>2, <2>3, <2>4, <2>5, <2>6 DEF Submit
<1>3. ASSUME NEW s \in Submissions, NEW p \in Nodes, Answer(s, p)
      PROVE  Promise!VoteNext \/ UNCHANGED <<ran, result>>
  <2>1. CASE PeerRefuses(s, p)
    BY <2>1 DEF PeerRefuses
  <2>2. CASE PeerHandles(s, p)
    <3>1. PICK verdict \in Verdicts[p] :
             \/ verdict = "raises" /\ UNCHANGED ran
             \/ verdict # "raises" /\ ran' = [ran EXCEPT ![p] = @ \cup {[sub |-> s, status |-> verdict]}]
      BY <2>2 DEF PeerHandles
    <3>2. asks[s][p] = "sent" /\ UNCHANGED result
      BY <2>2 DEF PeerHandles
    <3>3. ~Ran(p, s)
      BY <3>2 DEF Inv, SubInv, AskInv, Statuses
    <3>4. verdict # "raises" => verdict \in Statuses
      BY FederationAssumption DEF Statuses
    <3> QED BY <3>1, <3>2, <3>3, <3>4, HandleKept
  <2> QED BY <1>3, <2>1, <2>2 DEF Answer
<1>4. CASE SetPartition \/ SwapSlot
  BY <1>1, <1>4 DEF SetPartition, SwapSlot
<1>5. CASE \E n, p \in Nodes : ClearDrift(n, p) \/ Expire(n, p)
  BY <1>1, <1>5 DEF ClearDrift, Expire
<1>6. CASE \E p \in Nodes : Heartbeat(p)
  BY <1>1, <1>6 DEF Heartbeat
<1>7. CASE UNCHANGED vars
  BY <1>1, <1>7 DEF vars
<1> QED BY <1>1, <1>2, <1>3, <1>4, <1>5, <1>6, <1>7 DEF Next

\* For every cluster: the live federation implements QuorumVote, so a kernel
\* decides a request once, what is told stays, and ALLOWED needs a majority.
THEOREM PromiseRefinementCorrect == Spec => PromiseRefinement
<1>1. Init => Promise!VoteInit
  BY DEF Init, Promise!VoteInit
<1> QED BY <1>1, PromiseStep, InvCorrect, PTL DEF Spec, PromiseRefinement, Promise!VoteSpec
=============================================================================
