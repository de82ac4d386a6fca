--------------------------- MODULE BlackboardProofs ---------------------------
(***************************************************************************)
(* Compare-and-set on the blackboard, for any number of callers, whatever  *)
(* methods they use and whether or not entries expire.  The invariant says *)
(* what a caller knows of the entry between its two calls: as long as the  *)
(* versions have not started over, they grow with every write that is      *)
(* counted, and nothing but an expiry makes them differ otherwise.         *)
(***************************************************************************)
EXTENDS Blackboard, TLAPS

Entries == [version : 0 .. Cap, value : Callers \cup {Nobody}, ttl : BOOLEAN, expired : BOOLEAN]
Clients == [doing : {"idle", "cas", "create"}, version : 0 .. Cap, missed : SUBSET Kinds]

\* What the version a caller k has read tells of the entry e.
Knows(k, e) ==
    k.doing = "cas" /\ "restarted" \notin k.missed =>
        /\ k.version <= e.version
        /\ "counted" \in k.missed => k.version < e.version
        /\ k.missed = {} /\ k.version # e.version => e.expired

IInv ==
    /\ entry \in Entries
    /\ client \in [Callers -> Clients]
    /\ \A c \in Callers : Knows(client[c], entry)

-----------------------------------------------------------------------------
(* Writes *)

\* A write does to the version what its kind says.
Legal(kind, e) ==
    /\ e \in Entries /\ kind \in Kinds
    /\ kind = "counted" => e.version = entry.version + 1
    /\ kind = "uncounted" => e.version = entry.version

\* A caller that misses a write knows what it knew.
LEMMA MissesKnows ==
    ASSUME entry \in Entries, NEW k \in Clients, Knows(k, entry), NEW kind, NEW e, Legal(kind, e)
    PROVE  Misses(k, kind) \in Clients /\ Knows(Misses(k, kind), e)
<1>1. CASE k.doing = "idle"
  BY <1>1 DEF Misses, Knows
<1>2. CASE k.doing # "idle"
  <2> DEFINE m == Misses(k, kind)
             missed == k.missed \cup {kind}
  <2>1. m = [k EXCEPT !.missed = missed] /\ missed \in SUBSET Kinds
    BY <1>2 DEF Misses, Clients, Legal
  <2>2. kind \in missed /\ missed # {} /\ \A x : x \in missed <=> x \in k.missed \/ x = kind
    OBVIOUS
  <2> HIDE DEF m, missed
  <2>3. /\ m \in Clients /\ m.doing = k.doing /\ m.version = k.version /\ m.missed = missed
    BY <2>1 DEF Clients
  <2>4. k.version \in Nat /\ entry.version \in Nat /\ e.version \in Nat
    BY DEF Clients, Entries, Legal
  <2>5. ASSUME m.doing = "cas", "restarted" \notin missed
        PROVE  m.version <= e.version /\ ("counted" \in missed => m.version < e.version)
    <3>1. kind \in {"counted", "uncounted"} /\ "restarted" \notin k.missed
      BY <2>2, <2>5 DEF Kinds, Legal
    <3>2. k.version <= entry.version /\ ("counted" \in k.missed => k.version < entry.version)
      BY <2>3, <2>5, <3>1 DEF Knows
    <3> QED BY <2>2, <2>3, <2>4, <3>1, <3>2 DEF Legal
  <2>6. Knows(m, e)
    BY <2>2, <2>3, <2>5 DEF Knows
  <2> QED BY <2>3, <2>6 DEF m
<1> QED BY <1>1, <1>2

\* An idle caller claims nothing.
LEMMA IdleKnows == ASSUME BoardAssumption, NEW e PROVE Idle \in Clients /\ Knows(Idle, e)
  BY DEF BoardAssumption, Idle, Clients, Knows

\* An entry put together from its parts.
LEMMA EntryParts ==
    ASSUME NEW v \in 0 .. Cap, NEW w \in Callers \cup {Nobody}, NEW t \in BOOLEAN, NEW x \in BOOLEAN
    PROVE  [version |-> v, value |-> w, ttl |-> t, expired |-> x] \in Entries
  BY DEF Entries

\* The entries that the methods write.
LEMMA WritesLegal ==
    ASSUME BoardAssumption, IInv, NEW c \in Callers, NEW ttl \in BOOLEAN
    PROVE  /\ entry.version < Cap => Legal("counted", Rewritten(c, ttl))
           /\ Legal("restarted", New(c, ttl))
           /\ Legal("restarted", Absent)
           /\ Legal("uncounted", [entry EXCEPT !.value = c, !.expired = FALSE])
<1>1. entry \in Entries /\ entry.version \in 0 .. Cap /\ 1 \in 0 .. Cap /\ 0 \in 0 .. Cap
  BY DEF BoardAssumption, IInv, Entries
<1>2. ASSUME entry.version < Cap PROVE Legal("counted", Rewritten(c, ttl))
  <2> DEFINE v == entry.version + 1
  <2>1. v \in 0 .. Cap
    BY <1>1, <1>2 DEF BoardAssumption
  <2>2. Rewritten(c, ttl) = [version |-> v, value |-> c, ttl |-> ttl, expired |-> FALSE]
    BY DEF Rewritten
  <2> HIDE DEF v
  <2>3. Rewritten(c, ttl).version = v
    BY <2>2
  <2>4. Rewritten(c, ttl) \in Entries
    BY <2>1, <2>2, EntryParts, Zenon
  <2> QED BY <2>3, <2>4 DEF v, Legal, Kinds
<1>3. Legal("restarted", New(c, ttl))
  BY <1>1, EntryParts DEF New, Legal, Kinds
<1>4. Legal("restarted", Absent)
  BY <1>1, EntryParts DEF Absent, Legal, Kinds
<1>5. Legal("uncounted", [entry EXCEPT !.value = c, !.expired = FALSE])
  BY <1>1 DEF Legal, Kinds, Entries
<1> QED BY <1>2, <1>3, <1>4, <1>5

\* A time to live is given or not.
LEMMA TTLsBoolean == ASSUME NEW old \in BOOLEAN, NEW ttl \in TTLs(old) PROVE ttl \in BOOLEAN
  BY DEF TTLs

-----------------------------------------------------------------------------
(* Steps *)

\* The invariant is kept, whoever swaps had the current version, and whoever creates
\* replaces nothing.
Step == IInv' /\ \A d \in Callers : (Swaps(d) => Matches(d)) /\ (Creates(d) => ~Live)

\* A write by somebody who is in the middle of nothing
LEMMA StoreStep ==
    ASSUME IInv, NEW kind, NEW e, Legal(kind, e), Store(kind, e)
    PROVE  Step
<1>1. \A d \in Callers : Misses(client[d], kind) \in Clients /\ Knows(Misses(client[d], kind), e)
  BY MissesKnows DEF IInv
<1>2. client' = [d \in Callers |-> Misses(client[d], kind)] /\ entry' = e
  BY DEF Store
<1>3. IInv'
  BY <1>1, <1>2 DEF IInv, Legal, Knows
<1>4. ASSUME NEW d \in Callers, client[d].doing # "idle" PROVE client'[d].doing # "idle"
  BY <1>2, <1>4 DEF Misses, IInv, Clients
<1> QED BY <1>3, <1>4 DEF Step, Swaps, Creates

\* A write that ends what its caller was in the middle of
LEMMA StoreAndEndStep ==
    ASSUME BoardAssumption, IInv, NEW c \in Callers, NEW kind, NEW e, Legal(kind, e),
           entry' = e,
           client' = [d \in Callers |-> IF d = c THEN Idle ELSE Misses(client[d], kind)],
           client[c].doing = "cas" => Matches(c),
           client[c].doing = "create" => ~Live
    PROVE  Step
<1>1. \A d \in Callers : Misses(client[d], kind) \in Clients /\ Knows(Misses(client[d], kind), e)
  BY MissesKnows DEF IInv
<1>2. Idle \in Clients /\ Knows(Idle, e)
  BY IdleKnows
<1>3. IInv'
  <2>1. client' \in [Callers -> Clients]
    BY <1>1, <1>2
  <2>2. \A d \in Callers : Knows(client'[d], e)
    BY <1>1, <1>2
  <2> QED BY <2>1, <2>2 DEF IInv, Legal, Knows
<1>4. ASSUME NEW d \in Callers, client[d].doing # "idle", d # c PROVE client'[d].doing # "idle"
  BY <1>4 DEF Misses, IInv, Clients
<1> QED BY <1>3, <1>4 DEF Step, Swaps, Creates

\* A call that writes nothing
LEMMA QuietStep ==
    ASSUME IInv, NEW c \in Callers, NEW k \in Clients, Knows(k, entry),
           client' = [client EXCEPT ![c] = k], UNCHANGED entry
    PROVE  Step
<1>1. client' \in [Callers -> Clients]
  BY DEF IInv
<1>2. \A d \in Callers : Knows(client'[d], entry)
  BY DEF IInv
<1> QED BY <1>1, <1>2 DEF IInv, Knows, Step, Swaps, Creates

\* set, update, update_if_fresh, and the removals
LEMMA SingleCalls ==
    ASSUME BoardAssumption, IInv, NEW c \in Callers,
           Set(c) \/ Update(c) \/ UpdateIfFresh(c) \/ Delete(c) \/ ClearExpired(c)
    PROVE  Step
<1>0. entry.ttl \in BOOLEAN
  BY DEF IInv, Entries
<1>1. CASE Set(c)
  <2>1. PICK ttl \in TTLs(entry.ttl) :
           IF Present THEN Store("counted", Rewritten(c, ttl)) ELSE Store("restarted", New(c, ttl))
    BY <1>1 DEF Set
  <2>2. entry.version < Cap /\ ttl \in BOOLEAN
    BY <1>0, <1>1, <2>1, TTLsBoolean DEF Set
  <2> QED BY <2>1, <2>2, WritesLegal, StoreStep
<1>2. CASE Update(c)
  <2>1. IF Present THEN Store("uncounted", [entry EXCEPT !.value = c, !.expired = FALSE])
        ELSE Store("restarted", New(c, FALSE))
    BY <1>2 DEF Update
  <2> QED BY <2>1, WritesLegal, StoreStep
<1>3. CASE UpdateIfFresh(c)
  <2>1. entry.version < Cap /\ Store("counted", Rewritten(c, entry.ttl))
    BY <1>3 DEF UpdateIfFresh
  <2> QED BY <1>0, <2>1, WritesLegal, StoreStep
<1>4. CASE Delete(c) \/ ClearExpired(c)
  <2>1. Store("restarted", Absent)
    BY <1>4 DEF Delete, ClearExpired
  <2> QED BY <2>1, WritesLegal, StoreStep
<1> QED BY <1>1, <1>2, <1>3, <1>4

\* get_or_set
LEMMA GetOrSet ==
    ASSUME BoardAssumption, IInv, NEW c \in Callers, CreateLooks(c) \/ CreateWrites(c)
    PROVE  Step
<1>1. Idle \in Clients /\ Knows(Idle, entry)
  BY IdleKnows
<1>2. CASE UNCHANGED <<entry, client>>
  BY <1>2 DEF IInv, Step, Knows, Swaps, Creates
<1>3. CASE CreateLooks(c) /\ ~Returns
  <2> DEFINE k == [Idle EXCEPT !.doing = "create"]
  <2>1. client' = [client EXCEPT ![c] = k] /\ UNCHANGED entry
    BY <1>3 DEF CreateLooks
  <2>2. k \in Clients /\ Knows(k, entry)
    BY <1>1 DEF Idle, Clients, Knows
  <2> QED BY <2>1, <2>2, QuietStep
<1>4. CASE CreateWrites(c) /\ Returns
  BY <1>1, <1>4, QuietStep DEF CreateWrites, End
<1>5. CASE CreateWrites(c) /\ ~Returns
  <2>1. PICK ttl \in TTLs(FALSE) :
           /\ entry' = New(c, ttl)
           /\ client' = [d \in Callers |->
                           IF d = c THEN Idle ELSE Misses(client[d], "restarted")]
    BY <1>5 DEF CreateWrites, StoreAndEnd
  <2>2. Legal("restarted", New(c, ttl))
    BY <2>1, TTLsBoolean, WritesLegal
  <2>3. client[c].doing # "cas" /\ ~Live
    BY <1>5 DEF CreateWrites, Returns
  <2> QED BY <2>1, <2>2, <2>3, StoreAndEndStep
<1> QED BY <1>2, <1>3, <1>4, <1>5 DEF CreateLooks

\* get_with_version
LEMMA Reading == ASSUME BoardAssumption, IInv, NEW c \in Callers, ReadVersion(c) PROVE Step
<1>1. entry.version \in 0 .. Cap /\ entry.expired \in BOOLEAN /\ 0 \in 0 .. Cap
  BY DEF BoardAssumption, IInv, Entries
<1>2. PICK seen \in {entry.version} \cup (IF entry.expired THEN {0} ELSE {}) :
         client' = [client EXCEPT ![c] = [doing |-> "cas", version |-> seen, missed |-> {}]]
  BY DEF ReadVersion
<1> DEFINE k == [doing |-> "cas", version |-> seen, missed |-> {}]
<1>3. seen \in 0 .. Cap /\ seen <= entry.version /\ (seen # entry.version => entry.expired)
  BY <1>1, <1>2
<1>4. k \in Clients
  BY <1>3 DEF Clients
<1>5. Knows(k, entry)
  BY <1>3 DEF Knows
<1> QED BY <1>2, <1>4, <1>5, QuietStep DEF ReadVersion

\* compare_and_set and expire_if_version
LEMMA Comparing ==
    ASSUME BoardAssumption, IInv, NEW c \in Callers,
           CompareAndSet(c) \/ CompareFails(c) \/ ExpireIfVersion(c) \/ Abandon(c)
    PROVE  Step
<1>1. CASE CompareAndSet(c)
  <2>1. PICK ttl \in TTLs(entry.ttl) :
           IF Present THEN StoreAndEnd(c, "counted", Rewritten(c, ttl))
           ELSE StoreAndEnd(c, "restarted", New(c, ttl))
    BY <1>1 DEF CompareAndSet
  <2>2. entry.version < Cap /\ Matches(c) /\ ttl \in BOOLEAN /\ client[c].doing = "cas"
    BY <1>1, <2>1, TTLsBoolean DEF CompareAndSet, IInv, Entries
  <2> QED BY <2>1, <2>2, WritesLegal, StoreAndEndStep DEF StoreAndEnd
<1>2. CASE ExpireIfVersion(c)
  <2>1. StoreAndEnd(c, "restarted", Absent) /\ Matches(c) /\ client[c].doing = "cas"
    BY <1>2 DEF ExpireIfVersion
  <2>2. Legal("restarted", Absent)
    BY WritesLegal
  <2> QED BY <2>1, <2>2, StoreAndEndStep DEF StoreAndEnd
<1>3. CASE CompareFails(c) \/ Abandon(c)
  BY <1>3, IdleKnows, QuietStep DEF CompareFails, Abandon, End
<1> QED BY <1>1, <1>2, <1>3

\* The passing of time
LEMMA Expiry == ASSUME IInv, Expire PROVE Step
<1>1. entry' \in Entries /\ entry'.version = entry.version /\ entry'.expired /\ client' = client
  BY DEF Expire, IInv, Entries
<1>2. IInv'
  BY <1>1 DEF IInv, Knows
<1>3. \A d \in Callers : ~Swaps(d) /\ ~Creates(d)
  BY <1>1 DEF Swaps, Creates
<1> QED BY <1>2, <1>3 DEF Step

LEMMA NextStep == ASSUME BoardAssumption, IInv, [Next]_vars PROVE Step
<1>1. CASE UNCHANGED vars
  BY <1>1 DEF vars, IInv, Knows, Step, Swaps, Creates
<1>2. CASE Expire
  BY <1>2, Expiry
<1>3. ASSUME NEW c \in Callers,
             Set(c) \/ Update(c) \/ UpdateIfFresh(c) \/ Delete(c) \/ ClearExpired(c)
      PROVE  Step
  BY <1>3, SingleCalls
<1>4. ASSUME NEW c \in Callers, CreateLooks(c) \/ CreateWrites(c) PROVE Step
  BY <1>4, GetOrSet
<1>5. ASSUME NEW c \in Callers, ReadVersion(c) PROVE Step
  BY <1>5, Reading
<1>6. ASSUME NEW c \in Callers,
             CompareAndSet(c) \/ CompareFails(c) \/ ExpireIfVersion(c) \/ Abandon(c)
      PROVE  Step
  BY <1>6, Comparing
<1> QED BY <1>1, <1>2, <1>3, <1>4, <1>5, <1>6 DEF Next

-----------------------------------------------------------------------------
(* Theorems *)

\* The invariant holds of an empty board.
LEMMA InitInv == ASSUME BoardAssumption PROVE Init => IInv
<1> SUFFICES ASSUME Init PROVE IInv
  OBVIOUS
<1>1. entry \in Entries
  <2>1. 0 \in 0 .. Cap
    BY DEF BoardAssumption
  <2>2. Absent \in Entries
    BY <2>1, EntryParts, Zenon DEF Absent
  <2> QED BY <2>2 DEF Init
<1>2. \A c \in Callers : client[c] = Idle
  BY DEF Init
<1>3. client \in [Callers -> Clients]
  BY IdleKnows DEF Init
<1> QED BY <1>1, <1>2, <1>3, IdleKnows DEF IInv

\* blackboard.py:compare_and_set, whatever the callers do: no write that was counted
\* is lost, unless the key's versions started over in between.
THEOREM CasLosesNothing == ASSUME BoardAssumption PROVE Spec => CountedNotLost
<1>1. IInv /\ [Next]_vars => IInv'
  BY NextStep DEF Step
<1>2. IInv /\ [Next]_vars =>
        [\A c \in Callers :
            Swaps(c) /\ "counted" \in client[c].missed => "restarted" \in client[c].missed]_vars
  <2> SUFFICES ASSUME IInv, [Next]_vars, NEW c \in Callers, Swaps(c),
                      "counted" \in client[c].missed
               PROVE  "restarted" \in client[c].missed
    OBVIOUS
  <2>1. entry.version = client[c].version
    BY NextStep DEF Step, Matches
  <2>2. Knows(client[c], entry) /\ client[c].doing = "cas" /\ entry.version \in Nat
    BY DEF IInv, Swaps, Entries
  <2> QED BY <2>1, <2>2 DEF Knows
<1> QED BY InitInv, <1>1, <1>2, PTL DEF Spec, CountedNotLost

\* A compare-and-set fails only when its caller was overtaken, or the entry expired.
THEOREM CasFailsOnConflict == ASSUME BoardAssumption PROVE Spec => []FailsOnConflict
<1>1. IInv /\ [Next]_vars => IInv'
  BY NextStep DEF Step
<1>2. IInv => FailsOnConflict
  <2> SUFFICES ASSUME IInv, NEW c \in Callers, client[c].doing = "cas", ~Matches(c),
                      client[c].missed = {}
               PROVE  entry.expired
    BY DEF FailsOnConflict
  <2>1. Knows(client[c], entry)
    BY DEF IInv
  <2> QED BY <2>1 DEF Knows, Matches
<1> QED BY InitInv, <1>1, <1>2, PTL DEF Spec

\* blackboard.py:get_or_set, whatever other callers do between its two looks: it creates
\* what is missing, and never replaces what is live.
THEOREM GetOrSetCreatesOnce == ASSUME BoardAssumption PROVE Spec => CreatedOnce
<1>1. IInv /\ [Next]_vars => IInv'
  BY NextStep DEF Step
<1>2. IInv /\ [Next]_vars => [\A c \in Callers : Creates(c) => ~Live]_vars
  BY NextStep DEF Step
<1> QED BY InitInv, <1>1, <1>2, PTL DEF Spec, CreatedOnce
=============================================================================
