----------------------- MODULE SourceResolutionProofs -----------------------
(***************************************************************************)
(* Proofs about SourceResolution, for any sources, pins and agenda, any    *)
(* number of artifacts and of moves of refs.  Between any two requests the *)
(* run holds one revision that was requested, and everything it collected  *)
(* is about the revision it is filed under.                                *)
(***************************************************************************)
EXTENDS SourceResolution, TLAPS

Checked == status \in {"running", "locked"} => \A s \in Source : WellFormed(candidate[s])

HeadWasSeen == \A r \in Ref : head[r] \in seen[r]

\* The ref that is asked for is a ref of the item.
LEMMA AskedForIsRef == ASSUME NEW i \in Item PROVE AskedFor(i) \in Ref
BY DEF AskedFor, Ref

\* Revision v is one that was asked for when item i was discovered.
WasRequested(i, v) == IF i \in Pin \/ candidate[i].ref # None
                      THEN v \in seen[AskedFor(i)]
                      ELSE v = candidate[i].revision

\* What is known of the item in progress after each of its requests.
InProgress ==
  /\ status = "validate" => phase = "discover"
  /\ Running("exact") \/ Running("fetch") =>
        at <= Len(Agenda) /\ revision \in Revision /\ WasRequested(Current, revision)
  /\ Running("exact") /\ Current \in Pin => Declared(Current)
  /\ Running("fetch") => /\ Current \in Source
                         /\ metadata = revision /\ revision \in world.known[Current]
                         /\ \A k \in DOMAIN payloads : payloads[k] = revision

\* A lock entry e is about one existing, audited revision of item i.
EntryCoherent(i, e) ==
  /\ e.revision \in world.known[i] /\ e.metadata = e.revision
  /\ i \in Source => /\ e.payloads = [n \in 1 .. Artifacts |-> e.revision]
                     /\ e.revision \in world.audited[i]
  /\ i \in HfSource => <<e.revision, e.revision>> \in world.covers

Collected ==
  /\ Len(lock) = at - 1
  /\ \A k \in 1 .. at - 1 : /\ EntryCoherent(Agenda[k], lock[k])
                            /\ WasRequested(Agenda[k], lock[k].revision)

\* The declarations that are kept are those of a revision in the lock.
CmakeIsOfLock ==
  \A k \in DOMAIN cmake :
    \E m \in 1 .. at - 1 : Agenda[m] = Declaring /\ lock[m].revision = cmake[k]

PinsBound ==
  \A k \in 1 .. at - 1 : Agenda[k] \in Pin =>
    \E m \in 1 .. at - 1 : /\ Agenda[m] = Declaring
                           /\ <<lock[m].revision, Agenda[k]>> \in world.declares

Complete == status = "locked" => at = Len(Agenda) + 1

IInv == /\ TypeOK /\ Checked /\ HeadWasSeen /\ InProgress
        /\ Collected /\ CmakeIsOfLock /\ PinsBound /\ Complete

----------------------------------------------------------------------------
\* What Append returns.
LEMMA AppendFacts ==
  ASSUME NEW S, NEW q \in Seq(S), NEW e \in S
  PROVE  /\ Append(q, e) \in Seq(S)
         /\ Len(Append(q, e)) = Len(q) + 1
         /\ DOMAIN Append(q, e) = 1 .. Len(q) + 1
         /\ \A k \in 1 .. Len(q) : Append(q, e)[k] = q[k]
         /\ Append(q, e)[Len(q) + 1] = e
  OBVIOUS

\* The components of a possible world.
LEMMA WorldTypes ==
  ASSUME world \in World
  PROVE  /\ \A i \in Item : world.known[i] \subseteq Revision
         /\ \A i \in Source : world.audited[i] \subseteq Revision
  BY WorldAssumption

\* Len(Agenda) is a number and the current item is one.
LEMMA AgendaTypes ==
  /\ Len(Agenda) \in Nat
  /\ \A k \in 1 .. Len(Agenda) : Agenda[k] \in Item
  BY ItemAssumption

\* A step that collects nothing and keeps the hosts keeps what was collected.
LEMMA KeepsCollected ==
  ASSUME IInv, UNCHANGED <<world, candidate, seen, at, lock>>
  PROVE  Collected'
  BY DEF IInv, Collected, EntryCoherent, WasRequested

\* So does one that files a coherent entry for the current item.
LEMMA Files ==
  ASSUME IInv, at <= Len(Agenda), NEW e \in Locked,
         EntryCoherent(Current, e), WasRequested(Current, e.revision),
         lock' = Append(lock, e), at' = at + 1, UNCHANGED hosts
  PROVE  /\ lock' \in Seq(Locked)
         /\ Collected'
         /\ lock'[at] = e /\ at \in Nat \ {0} /\ 1 .. at' - 1 = 1 .. at
         /\ \A k \in 1 .. at - 1 : lock'[k] = lock[k]
<1>1. /\ lock' \in Seq(Locked) /\ Len(lock') = at /\ lock'[at] = e /\ at \in Nat \ {0}
      /\ 1 .. at' - 1 = 1 .. at
      /\ \A k \in 1 .. at - 1 : lock'[k] = lock[k]
  BY AppendFacts DEF IInv, TypeOK, Collected
<1>2. ASSUME NEW k \in 1 .. at
      PROVE  EntryCoherent(Agenda[k], lock[k])' /\ WasRequested(Agenda[k], lock[k].revision)'
  <2>1. CASE k = at
    <3>1. EntryCoherent(Agenda[k], e) /\ WasRequested(Agenda[k], e.revision)
      BY <2>1 DEF Current
    <3> QED
      BY <1>1, <2>1, <3>1 DEF EntryCoherent, WasRequested, hosts
  <2>2. CASE k # at
    <3>1. k \in 1 .. at - 1 /\ lock'[k] = lock[k]
      BY <1>1, <2>2
    <3>2. EntryCoherent(Agenda[k], lock[k]) /\ WasRequested(Agenda[k], lock[k].revision)
      BY <3>1 DEF IInv, Collected
    <3> QED
      BY <3>1, <3>2 DEF EntryCoherent, WasRequested, hosts
  <2> QED
    BY <2>1, <2>2
<1>3. Collected'
  BY <1>1, <1>2 DEF IInv, TypeOK, Collected
<1> QED
  BY <1>1, <1>3

LEMMA InitIInv == ASSUME Init PROVE IInv
<1>1. TypeOK
  BY AgendaTypes, ValueAssumption DEF Init, TypeOK
<1>2. Checked /\ HeadWasSeen /\ InProgress /\ Complete
  BY DEF Init, Checked, HeadWasSeen, InProgress, Declared, Complete, Running
<1>3. Collected /\ CmakeIsOfLock /\ PinsBound
  BY DEF Init, Collected, CmakeIsOfLock, PinsBound
<1> QED
  BY <1>1, <1>2, <1>3 DEF IInv

\* The end of a run, by an exception, is harmless in every state.
LEMMA RefuseInv == ASSUME IInv, Refuse PROVE IInv'
<1>1. TypeOK'
  BY DEF IInv, Refuse, TypeOK, hosts
<1>2. (Checked /\ HeadWasSeen /\ InProgress /\ Complete)'
  BY DEF IInv, Refuse, hosts, Checked, HeadWasSeen, InProgress, Declared, Complete, Running
<1>3. Collected'
  BY KeepsCollected DEF Refuse, hosts
<1>4. CmakeIsOfLock' /\ PinsBound'
  BY DEF IInv, Refuse, hosts, CmakeIsOfLock, PinsBound
<1> QED
  BY <1>1, <1>2, <1>3, <1>4 DEF IInv

\* A ref that moves only adds to what was seen.
LEMMA MoveHeadInv == ASSUME IInv, NEW r \in Ref, MoveHead(r) PROVE IInv'
<1> PICK v \in world.known[r[1]] \ {head[r]} :
       /\ head' = [head EXCEPT ![r] = v]
       /\ seen' = [seen EXCEPT ![r] = @ \cup {v}]
  BY DEF MoveHead
<1> USE DEF MoveHead, run
<1>1. TypeOK'
  <2>1. v \in Revision
    <3>1. r[1] \in Item
      BY DEF Ref, Item, Source
    <3>2. world \in World
      BY DEF IInv, TypeOK
    <3>3. world.known[r[1]] \subseteq Revision
      BY <3>1, <3>2, WorldTypes
    <3> QED
      BY <3>3
  <2> QED
    BY <2>1, ValueAssumption DEF IInv, TypeOK
<1>2. \A j \in Item : seen[AskedFor(j)] \subseteq seen'[AskedFor(j)]
  BY AskedForIsRef DEF IInv, TypeOK
<1>3. \A j \in Item : \A w : WasRequested(j, w) => WasRequested(j, w)'
  BY <1>2 DEF WasRequested
<1>4. HeadWasSeen'
  BY DEF IInv, TypeOK, HeadWasSeen
<1>5. Checked' /\ Complete' /\ CmakeIsOfLock' /\ PinsBound'
  BY DEF IInv, Checked, Complete, CmakeIsOfLock, PinsBound, WellFormed
<1>6. InProgress'
  <2>1. at <= Len(Agenda) => Current \in Item
    BY AgendaTypes DEF IInv, TypeOK, Current
  <2> QED
    BY <1>3, <2>1 DEF IInv, InProgress, Declared, Running, Current
<1>7. Collected'
  <2>1. \A k \in 1 .. at - 1 : Agenda[k] \in Item
    BY AgendaTypes DEF IInv, TypeOK
  <2>2. UNCHANGED <<world, at, lock>>
    OBVIOUS
  <2>3. \A k \in 1 .. at - 1 : WasRequested(Agenda[k], lock[k].revision)'
    <3> SUFFICES ASSUME NEW k \in 1 .. at - 1 PROVE WasRequested(Agenda[k], lock[k].revision)'
      OBVIOUS
    <3>1. WasRequested(Agenda[k], lock[k].revision)
      BY DEF IInv, Collected
    <3> QED
      BY <1>2, <2>1, <2>2, <3>1 DEF WasRequested
  <2>4. \A k \in 1 .. at - 1 : EntryCoherent(Agenda[k], lock[k])'
    <3> SUFFICES ASSUME NEW k \in 1 .. at - 1 PROVE EntryCoherent(Agenda[k], lock[k])'
      OBVIOUS
    <3>1. EntryCoherent(Agenda[k], lock[k])
      BY DEF IInv, Collected
    <3> QED
      BY <2>2, <3>1 DEF EntryCoherent
  <2>5. Len(lock') = at' - 1
    BY <2>2 DEF IInv, Collected
  <2> QED
    BY <2>2, <2>3, <2>4, <2>5 DEF Collected
<1> QED
  BY <1>1, <1>4, <1>5, <1>6, <1>7 DEF IInv

\* A run goes on only with a candidate whose entries are well formed.
LEMMA ValidateInv == ASSUME IInv, Validate PROVE IInv'
<1>1. TypeOK' /\ HeadWasSeen'
  BY DEF IInv, Validate, TypeOK, hosts, HeadWasSeen
<1>2. Checked' /\ InProgress' /\ Complete'
  BY DEF IInv, Validate, hosts, Checked, InProgress, Declared, Complete, Running, WellFormed
<1>3. Collected'
  BY KeepsCollected DEF Validate, hosts
<1>4. CmakeIsOfLock' /\ PinsBound'
  BY DEF IInv, Validate, hosts, CmakeIsOfLock, PinsBound
<1> QED
  BY <1>1, <1>2, <1>3, <1>4 DEF IInv

\* Discovery takes the pinned revision or one the ref points to, and of a pin
\* only what a declaration binds.
LEMMA DiscoverInv == ASSUME IInv, at <= Len(Agenda), Discover PROVE IInv'
<1>1. Current \in Item
  BY AgendaTypes DEF IInv, TypeOK, Current
<1>2. revision' \in Revision /\ WasRequested(Current, revision')
  <2>1. CASE Pinned(Current)
    BY <2>1, ItemAssumption DEF IInv, Discover, Checked, WellFormed, Pinned, Running, WasRequested, Source, Item
  <2>2. CASE ~Pinned(Current)
    BY <2>2, <1>1, ItemAssumption, AskedForIsRef DEF IInv, TypeOK, Discover, Checked, WellFormed, Pinned, Running, WasRequested,
       HeadWasSeen, Source, Item
  <2> QED
    BY <2>1, <2>2
<1>3. TypeOK' /\ HeadWasSeen'
  BY <1>2 DEF IInv, Discover, TypeOK, hosts, HeadWasSeen
<1>4. Checked' /\ InProgress' /\ Complete'
  BY <1>2 DEF IInv, Discover, hosts, Checked, InProgress, Declared, Complete, Running, WellFormed, Current, WasRequested
<1>5. Collected'
  BY KeepsCollected DEF Discover, hosts
<1>6. CmakeIsOfLock' /\ PinsBound'
  BY DEF IInv, Discover, hosts, CmakeIsOfLock, PinsBound
<1> QED
  BY <1>3, <1>4, <1>5, <1>6 DEF IInv

\* The exact request keeps a revision that exists under its own name; for a
\* pin the entry is complete with it.
LEMMA ExactInv == ASSUME IInv, at <= Len(Agenda), Exact PROVE IInv'
<1>1. /\ revision \in Revision /\ metadata' = revision
      /\ revision \in world.known[Current] /\ WasRequested(Current, revision)
  BY DEF IInv, InProgress, Exact, RoundTrips
<1>2. status = "running" /\ Current \in Item /\ UNCHANGED <<hosts, status, revision, cmake>>
  BY AgendaTypes DEF IInv, TypeOK, Current, Exact, Running
<1>3. (Checked /\ HeadWasSeen /\ Complete)'
  BY <1>2 DEF IInv, Checked, HeadWasSeen, Complete, hosts, WellFormed
<1>4. CASE Current \in Pin
  <2> DEFINE e == [revision |-> revision, metadata |-> metadata', payloads |-> <<>>]
  <2>1. lock' = Append(lock, e) /\ at' = at + 1 /\ phase' = "discover" /\ payloads' = <<>>
    BY <1>4 DEF Exact
  <2>2. e \in Locked
    BY <1>1 DEF Locked
  <2>3. TypeOK'
    BY <1>1, <1>2, <2>1, <2>2, AgendaTypes, ValueAssumption DEF IInv, TypeOK, hosts
  <2>4. InProgress'
    BY <1>2, <2>1 DEF InProgress, Running
  <2>5. EntryCoherent(Current, e) /\ WasRequested(Current, e.revision)
    BY <1>1, <1>4, ItemAssumption DEF EntryCoherent, Source
  <2>6. UNCHANGED hosts
    BY <1>2
  <2>7. /\ Collected' /\ at \in Nat \ {0} /\ 1 .. at' - 1 = 1 .. at
        /\ \A k \in 1 .. at - 1 : lock'[k] = lock[k]
    BY <2>1, <2>2, <2>5, <2>6, Files
  <2>8. CmakeIsOfLock'
    <3> SUFFICES ASSUME NEW k \in DOMAIN cmake
                 PROVE  \E m \in 1 .. at : Agenda[m] = Declaring /\ lock'[m].revision = cmake[k]
      BY <1>2, <2>7 DEF CmakeIsOfLock
    <3>1. PICK m \in 1 .. at - 1 : Agenda[m] = Declaring /\ lock[m].revision = cmake[k]
      BY DEF IInv, CmakeIsOfLock
    <3> QED
      BY <2>7, <3>1
  <2>9. PICK k \in DOMAIN cmake : <<cmake[k], Current>> \in world.declares
    BY <1>4 DEF IInv, InProgress, Declared, Exact
  <2>10. PICK m \in 1 .. at - 1 : Agenda[m] = Declaring /\ lock[m].revision = cmake[k]
    BY DEF IInv, CmakeIsOfLock
  <2>11. PinsBound'
    <3> SUFFICES ASSUME NEW n \in 1 .. at, Agenda[n] \in Pin
                 PROVE  \E l \in 1 .. at : /\ Agenda[l] = Declaring
                                           /\ <<lock'[l].revision, Agenda[n]>> \in world.declares
      BY <1>2, <2>7 DEF PinsBound, hosts
    <3>1. CASE n = at
      BY <2>7, <2>9, <2>10, <3>1 DEF Current
    <3>2. CASE n # at
      <4>1. n \in 1 .. at - 1
        BY <2>7, <3>2
      <4>2. PICK l \in 1 .. at - 1 : /\ Agenda[l] = Declaring
                                     /\ <<lock[l].revision, Agenda[n]>> \in world.declares
        BY <4>1 DEF IInv, PinsBound
      <4> QED
        BY <2>7, <4>2
    <3> QED
      BY <3>1, <3>2
  <2> QED
    BY <1>3, <2>3, <2>4, <2>7, <2>8, <2>11 DEF IInv
<1>5. CASE Current \notin Pin
  <2>1. phase' = "fetch" /\ payloads' = <<>> /\ UNCHANGED <<at, lock>>
    BY <1>5 DEF Exact
  <2>2. TypeOK'
    BY <1>1, <1>2, <2>1, ValueAssumption DEF IInv, TypeOK, hosts
  <2>3. InProgress'
    BY <1>1, <1>2, <1>5, <2>1 DEF IInv, InProgress, Running, Current, Item, hosts, WasRequested, Exact
  <2>4. Collected'
    BY <1>2, <2>1, KeepsCollected DEF hosts
  <2>5. CmakeIsOfLock' /\ PinsBound'
    BY <1>2, <2>1 DEF IInv, CmakeIsOfLock, PinsBound, hosts
  <2> QED
    BY <1>3, <2>2, <2>3, <2>4, <2>5 DEF IInv
<1> QED
  BY <1>4, <1>5

\* Every file is requested at the revision in progress.
LEMMA FetchInv == ASSUME IInv, at <= Len(Agenda), Fetch PROVE IInv'
<1>1. /\ revision \in Revision /\ payloads' = Append(payloads, revision)
      /\ UNCHANGED <<hosts, status, at, phase, revision, metadata, cmake, lock>>
  BY DEF IInv, InProgress, Fetch, Requested
<1>2. /\ payloads' \in Seq(Revision) /\ Len(payloads') <= Artifacts
      /\ \A k \in DOMAIN payloads' : payloads'[k] = revision \/ (k \in DOMAIN payloads /\ payloads'[k] = payloads[k])
  <2>1. payloads \in Seq(Revision) /\ Len(payloads) < Artifacts
    BY ValueAssumption DEF IInv, TypeOK, Fetch, AllFetched
  <2> QED
    BY <1>1, <2>1, AppendFacts, ValueAssumption
<1>3. TypeOK' /\ HeadWasSeen'
  BY <1>1, <1>2 DEF IInv, TypeOK, hosts, HeadWasSeen
<1>4. Checked' /\ Complete'
  BY <1>1 DEF IInv, Checked, Complete, hosts, WellFormed
<1>5. InProgress'
  BY <1>1, <1>2 DEF IInv, InProgress, Declared, Running, Current, hosts, WasRequested, Fetch
<1>6. Collected'
  BY <1>1, KeepsCollected DEF hosts
<1>7. CmakeIsOfLock' /\ PinsBound'
  BY <1>1 DEF IInv, CmakeIsOfLock, PinsBound, hosts
<1> QED
  BY <1>3, <1>4, <1>5, <1>6, <1>7 DEF IInv

\* A source that passes its audit is filed with the payloads it was audited by.
LEMMA AuditInv == ASSUME IInv, at <= Len(Agenda), Audit PROVE IInv'
<1> DEFINE e == [revision |-> revision, metadata |-> metadata, payloads |-> payloads]
<1>1. /\ revision \in Revision /\ metadata = revision /\ revision \in world.known[Current]
      /\ WasRequested(Current, revision) /\ Current \in Source
      /\ \A k \in DOMAIN payloads : payloads[k] = revision
  BY DEF IInv, InProgress, Audit
<1>2. /\ status = "running" /\ lock' = Append(lock, e) /\ at' = at + 1 /\ phase' = "discover"
      /\ UNCHANGED <<hosts, status, revision, metadata, payloads>>
      /\ cmake' = IF Current = Declaring THEN payloads ELSE cmake
  BY DEF Audit, Running
<1>3. (Checked /\ HeadWasSeen /\ Complete)'
  BY <1>2 DEF IInv, Checked, HeadWasSeen, Complete, hosts, WellFormed
<1>4. payloads \in Seq(Revision) /\ Len(payloads) = Artifacts /\ DOMAIN payloads = 1 .. Artifacts
  BY ValueAssumption DEF IInv, TypeOK, Audit, AllFetched
<1>5. e \in Locked
  BY <1>1, <1>4 DEF Locked
<1>6. TypeOK'
  <2>1. lock' \in Seq(Locked)
    BY <1>2, <1>5, AppendFacts DEF IInv, TypeOK
  <2>2. cmake' \in Seq(Revision) /\ at' \in 1 .. Len(Agenda) + 1
    BY <1>2, <1>4, AgendaTypes DEF IInv, TypeOK
  <2> QED
    BY <1>2, <2>1, <2>2 DEF IInv, TypeOK, hosts
<1>7. InProgress'
  BY <1>2 DEF InProgress, Running
<1>8. EntryCoherent(Current, e) /\ WasRequested(Current, e.revision)
  <2>1. 1 \in DOMAIN payloads /\ payloads[1] = revision
    BY <1>1, <1>4, ValueAssumption
  <2>2. revision \in world.audited[Current] /\ (Current \in HfSource => <<revision, revision>> \in world.covers)
    BY <1>1, <2>1 DEF Audit, PassesAudit
  <2>3. payloads = [n \in 1 .. Artifacts |-> revision]
    BY <1>1, <1>4
  <2> QED
    BY <1>1, <2>2, <2>3 DEF EntryCoherent
<1>9. UNCHANGED hosts
  BY <1>2
<1>10. /\ Collected' /\ lock'[at] = e /\ at \in Nat \ {0} /\ 1 .. at' - 1 = 1 .. at
       /\ \A k \in 1 .. at - 1 : lock'[k] = lock[k]
  BY <1>2, <1>5, <1>8, <1>9, Files
<1>11. CmakeIsOfLock'
  <2>1. CASE Current = Declaring
    <3>1. \A k \in DOMAIN cmake' : cmake'[k] = revision
      BY <1>1, <1>2, <2>1
    <3>2. lock'[at].revision = revision /\ at \in 1 .. at' - 1 /\ Agenda[at] = Declaring
      <4>1. at \in 1 .. at
        BY <1>10
      <4>2. lock'[at].revision = revision
        BY <1>10
      <4> QED
        BY <1>10, <2>1, <4>1, <4>2 DEF Current
    <3> QED
      BY <3>1, <3>2 DEF CmakeIsOfLock
  <2>2. CASE Current # Declaring
    <3> SUFFICES ASSUME NEW k \in DOMAIN cmake
                 PROVE  \E m \in 1 .. at : Agenda[m] = Declaring /\ lock'[m].revision = cmake[k]
      BY <1>2, <2>2, <1>10 DEF CmakeIsOfLock
    <3>1. PICK m \in 1 .. at - 1 : Agenda[m] = Declaring /\ lock[m].revision = cmake[k]
      BY DEF IInv, CmakeIsOfLock
    <3> QED
      BY <1>10, <3>1
  <2> QED
    BY <2>1, <2>2
<1>12. PinsBound'
  <2> SUFFICES ASSUME NEW n \in 1 .. at, Agenda[n] \in Pin
               PROVE  \E l \in 1 .. at : /\ Agenda[l] = Declaring
                                         /\ <<lock'[l].revision, Agenda[n]>> \in world.declares
    BY <1>9, <1>10 DEF PinsBound, hosts
  <2>1. n \in 1 .. at - 1
    BY <1>1, <1>10, ItemAssumption DEF Current, Source
  <2>2. PICK l \in 1 .. at - 1 : /\ Agenda[l] = Declaring
                                 /\ <<lock[l].revision, Agenda[n]>> \in world.declares
    BY <2>1 DEF IInv, PinsBound
  <2> QED
    BY <1>10, <2>2
<1> QED
  BY <1>3, <1>6, <1>7, <1>10, <1>11, <1>12 DEF IInv

\* The lock is returned when the agenda is done.
LEMMA FinishInv == ASSUME IInv, Finish PROVE IInv'
<1>1. TypeOK' /\ HeadWasSeen'
  BY DEF IInv, Finish, TypeOK, hosts, HeadWasSeen
<1>2. Checked' /\ InProgress' /\ Complete'
  BY DEF IInv, Finish, hosts, Checked, InProgress, Complete, Running, WellFormed
<1>3. Collected'
  BY KeepsCollected DEF Finish, hosts
<1>4. CmakeIsOfLock' /\ PinsBound'
  BY DEF IInv, Finish, hosts, CmakeIsOfLock, PinsBound
<1> QED
  BY <1>1, <1>2, <1>3, <1>4 DEF IInv

----------------------------------------------------------------------------
\* Between any two requests the run holds one revision that was requested,
\* and what it collected is about the revision it is filed under.
THEOREM IInvariant == Spec => []IInv
<1>1. IInv /\ [Next]_vars => IInv'
  <2> SUFFICES ASSUME IInv, [Next]_vars PROVE IInv'
    OBVIOUS
  <2>1. CASE Validate
    BY <2>1, ValidateInv
  <2>2. CASE Work
    <3>1. ASSUME Refuse PROVE IInv'
      BY <3>1, RefuseInv
    <3> QED
      BY <2>2, <3>1, DiscoverInv, ExactInv, FetchInv, AuditInv
      DEF Work, NotDeclared, ExactDiffers, AuditFails, RequestFails
  <2>3. CASE Finish
    BY <2>3, FinishInv
  <2>4. CASE \E r \in Ref : MoveHead(r)
    BY <2>4, MoveHeadInv
  <2>5. CASE UNCHANGED vars
    <3>1. Collected'
      BY <2>5, KeepsCollected DEF vars, hosts, run
    <3>2. (TypeOK /\ Checked /\ HeadWasSeen /\ Complete)'
      BY <2>5 DEF IInv, vars, hosts, run, TypeOK, Checked, HeadWasSeen, Complete, WellFormed
    <3>3. InProgress'
      BY <2>5 DEF IInv, vars, hosts, run, InProgress, Declared, Running, Current, WasRequested
    <3>4. CmakeIsOfLock' /\ PinsBound'
      BY <2>5 DEF IInv, vars, hosts, run, CmakeIsOfLock, PinsBound
    <3> QED
      BY <3>1, <3>2, <3>3, <3>4 DEF IInv
  <2> QED
    BY <2>1, <2>2, <2>3, <2>4, <2>5 DEF Next, Step
<1> QED
  BY InitIInv, <1>1, PTL DEF Spec

\* Every variable of the run keeps its type, for every candidate and world.
THEOREM TypeCorrect == Spec => []TypeOK
<1>1. IInv => TypeOK
  BY DEF IInv
<1> QED
  BY <1>1, IInvariant, PTL

\* A lock that is returned is about one existing, audited revision of every
\* source (build_lock), however refs moved meanwhile.
THEOREM LockIsCoherent == Spec => []LockCoherent
<1>1. IInv => LockCoherent
  <2> SUFFICES ASSUME IInv, status = "locked" PROVE LockCoherent
    BY DEF LockCoherent
  <2>1. lock \in Seq(Locked) /\ Len(lock) = Len(Agenda) /\ DOMAIN lock = 1 .. at - 1
    BY AgendaTypes DEF IInv, TypeOK, Collected, Complete
  <2>2. \A k \in DOMAIN lock : EntryCoherent(Agenda[k], lock[k])
    BY <2>1 DEF IInv, Collected
  <2> QED
    BY <2>1, <2>2 DEF LockCoherent, EntryCoherent
<1> QED
  BY <1>1, IInvariant, PTL

\* The revision in a lock is the candidate's, or one its ref pointed to
\* during the run (resolve_git_revision, and resolve_hf_revision if the ref is
\* the default branch of the model repository).
THEOREM LockedWasRequested == Spec => []RevisionWasRequested
<1>1. IInv => RevisionWasRequested
  BY AgendaTypes DEF IInv, TypeOK, Collected, WasRequested, RevisionWasRequested
<1> QED
  BY <1>1, IInvariant, PTL

\* Every pin in a lock is declared by the revision of the declaring source
\* that is in the same lock (resolve_mlx_transitive_sources).
THEOREM LockedPinsDeclared == Spec => []PinsDeclared
<1>1. IInv => PinsDeclared
  <2> SUFFICES ASSUME IInv PROVE PinsDeclared
    OBVIOUS
  <2>1. DOMAIN lock = 1 .. at - 1
    BY DEF IInv, TypeOK, Collected
  <2> QED
    BY <2>1 DEF IInv, PinsBound, PinsDeclared
<1> QED
  BY <1>1, IInvariant, PTL
=============================================================================
