-------------------------- MODULE LeaveWizardProofs --------------------------
(***************************************************************************)
(* Invariants of the leave import page, proved for any files, any number of *)
(* imports, of requests under way and of steps of the user and of others.   *)
(***************************************************************************)
EXTENDS LeaveWizard, FiniteSetTheorems, WellFoundedInduction, TLAPS

Statuses == {"none", "preview_ready", "committed", "discarded", "reverted"}
Live == {"preview_ready", "committed"}
Done == {"committed", "reverted"}
Writes == {"upload", "commit", "discard", "revert"}
AboutOne == {"commit", "discard", "revert", "view", "resume"}

ImportType == [file : Files \cup {NoFile}, status : Statuses, base : 0 .. MaxImports,
               key : Keys \cup {0}, took : SUBSET Sheets, asked : SUBSET Sheets, ticks : SUBSET Ticks]

PageType == [shown : Ids \cup {0}, status : Statuses, full : BOOLEAN, codes : BOOLEAN,
             picked : SUBSET Sheets, ticked : SUBSET Ticks, confirming : BOOLEAN,
             committing : BOOLEAN, key : Keys \cup {0}, listing : BOOLEAN,
             offered : Ids \cup {0}, reverting : Ids \cup {0}, thanked : Ids \cup {0},
             open : SUBSET Ids]

RequestType == [op : Writes \cup {"view", "resume", "resume list"}, id : Ids \cup {0},
                file : Files \cup {NoFile}, sheets : SUBSET Sheets, ticks : SUBSET Ticks,
                key : Keys \cup {0}, heard : BOOLEAN, result : {"sent", "ok", "known", "error"},
                got : Ids \cup {0}, status : Statuses]

TypeInv == imports \in [Ids -> ImportType] /\ page \in PageType /\ flight \subseteq RequestType

\* Imports get their ids in order, and each has a file.
ImportsInv ==
  /\ \E n \in 0 .. MaxImports : \A i \in Ids : imports[i].status # "none" <=> i <= n
  /\ \A i \in Ids : imports[i].status # "none" => FileOf(i) \in Files

Exists(i) == i \in Ids /\ imports[i].status # "none"

\* What a request is about, and what its answer says.
RequestFits(r) ==
  /\ r.op \in AboutOne => Exists(r.id)
  /\ r.op = "upload" => r.file \in Files
  /\ IF r.op = "commit" THEN r.key \in Keys /\ r.sheets \subseteq Usable(FileOf(r.id)) ELSE r.key = 0
  /\ r.result \in {"ok", "known"} => Exists(r.got) \/ (r.op = "resume list" /\ r.got = 0)
  /\ r.op = "commit" /\ r.result = "ok" => imports[r.id].status \in Done
  /\ ~r.heard => r.result = "sent"
RequestsInv == \A r \in flight : RequestFits(r)

\* What is picked is of the import that is shown, and nothing is when none is.
PageFits(pg) ==
  /\ pg.shown # 0 => /\ Exists(pg.shown) /\ pg.key \in Keys
                      /\ pg.picked \subseteq Usable(FileOf(pg.shown))
  /\ pg.shown = 0 => /\ pg.picked = {} /\ pg.key = 0 /\ pg.status = "none"
                     /\ ~pg.full /\ ~pg.confirming
  /\ pg.offered # 0 => Exists(pg.offered)
  /\ pg.thanked # 0 => imports[pg.thanked].status \in Done
  /\ \A i \in pg.open : Exists(i)
PageInv == PageFits(page)

\* A key stands for one import: in what is stored, under way and on the page.
KeysInv ==
  /\ \A r \in flight, i \in Ids : r.key # 0 /\ imports[i].key = r.key => i = r.id
  /\ \A r, q \in flight : r.key # 0 /\ r.key = q.key => r.id = q.id
  /\ page.key # 0 => /\ \A i \in Ids : imports[i].key = page.key => i = page.shown
                     /\ \A r \in flight : r.key = page.key => r.id = page.shown

\* The requests that wait for an answer, and those of them that write, fit the
\* bound; with what is stored they leave a key for the next one.
Sent(S) == {r \in S : r.op \in Writes}
FlightInv ==
  /\ IsFiniteSet(flight) /\ Cardinality(flight) <= MaxFlight + 1
  /\ Cardinality(Sent(flight)) <= MaxFlight

\* While a preview waits that a page which was only opened can land on, the page
\* is on its way there.
OnTheWay(r) ==
  /\ r.op \in {"resume list", "resume"}
  /\ r.result \in {"ok", "known"} => r.got # 0
Waiting == page.open \cap With({"preview_ready"}) \cap Listed(ResumeLimit) # {}
ResumeInv ==
  /\ Waiting => \A r \in flight : r.heard => OnTheWay(r)
  /\ Waiting /\ page.shown = 0 => \E r \in flight : r.heard

----------------------------------------------------------------------------
(* Newest, Cardinality and Uid                                             *)

LEMMA Smallest ==
  ASSUME NEW S, S \subseteq Nat, S # {}
  PROVE  \E m \in S : \A k \in S : m <= k
<1>1. PICK m \in S : \A k \in S : ~(<<k, m>> \in OpToRel(<, Nat))
  BY NatLessThanWellFounded, WFMin, Zenon
<1>2. \A k \in S : ~(k < m)
  BY <1>1 DEF OpToRel
<1> QED BY <1>2

LEMMA NewestIs ==
  ASSUME NEW S, S \subseteq Ids
  PROVE  /\ S = {} => Newest(S) = 0
         /\ S # {} => Newest(S) \in S
         /\ Newest(S) \in Ids \cup {0} /\ Newest(S) \in 0 .. MaxImports
<1>1. ASSUME S # {} PROVE \E i \in S : \A j \in S : j <= i
  <2> DEFINE above == {n \in Nat : \A j \in S : j <= n}
  <2>1. MaxImports \in above
    BY BoundsAssumption DEF Ids
  <2>2. \E m \in above : \A k \in above : m <= k
    <3>1. above \subseteq Nat /\ above # {}
      BY <2>1
    <3> HIDE DEF above
    <3> QED BY <3>1, Smallest
  <2>3. PICK m \in above : \A k \in above : m <= k
    BY <2>2
  <2>4. CASE m \in S
    BY <2>4
  <2>5. CASE m \notin S
    <3>1. m \in Nat /\ \A j \in S : j \in Nat /\ j >= 1 /\ j <= m - 1
      BY <2>5, BoundsAssumption DEF Ids
    <3>2. m - 1 \in above
      BY <1>1, <3>1
    <3> QED BY <2>3, <3>1, <3>2
  <2> QED BY <2>4, <2>5
<1>2. S # {} => Newest(S) \in S
  BY <1>1 DEF Newest
<1>3. S = {} => Newest(S) = 0
  BY DEF Newest
<1>4. 0 \in 0 .. MaxImports /\ Ids \subseteq 0 .. MaxImports
  BY BoundsAssumption DEF Ids
<1> QED BY <1>2, <1>3, <1>4

\* What a function takes from a finite set is no more than the set.
LEMMA ImageBound ==
  ASSUME NEW S, IsFiniteSet(S), NEW f, f = [x \in S |-> f[x]]
  PROVE  IsFiniteSet({f[x] : x \in S}) /\ Cardinality({f[x] : x \in S}) <= Cardinality(S)
<1> DEFINE T == {f[x] : x \in S}
<1>1. f \in Surjection(S, T)
  BY DEF Surjection
<1> HIDE DEF T
<1>2. IsFiniteSet(T) /\ Cardinality(T) <= Cardinality(S)
  BY <1>1, FS_Surjection
<1> QED BY <1>2 DEF T

LEMMA UnionBound ==
  ASSUME NEW S, NEW T, IsFiniteSet(S), IsFiniteSet(T)
  PROVE  IsFiniteSet(S \cup T) /\ Cardinality(S \cup T) <= Cardinality(S) + Cardinality(T)
<1>1. IsFiniteSet(S \cap T)
  BY FS_Subset
<1>2. /\ IsFiniteSet(S \cup T)
      /\ Cardinality(S \cup T) = Cardinality(S) + Cardinality(T) - Cardinality(S \cap T)
  BY FS_Union
<1>3. Cardinality(S) \in Nat /\ Cardinality(T) \in Nat /\ Cardinality(S \cap T) \in Nat
  BY <1>1, FS_CardinalityType
<1> QED BY <1>2, <1>3

\* There always is a key that nothing has yet (MaxImports and MaxFlight leave one).
LEMMA UidIsFresh ==
  ASSUME TypeInv, RequestsInv, FlightInv
  PROVE  /\ Uid \in Keys
         /\ \A i \in Ids : imports[i].key # Uid
         /\ \A r \in flight : r.key # Uid
<1> DEFINE stored == {imports[i].key : i \in Ids}
           under == {r.key : r \in Sent(flight)}
<1>1. IsFiniteSet(Ids) /\ Cardinality(Ids) <= MaxImports
  BY FS_Interval, BoundsAssumption DEF Ids
<1>2. IsFiniteSet(stored) /\ Cardinality(stored) <= Cardinality(Ids)
  <2> DEFINE f == [i \in Ids |-> imports[i].key]
  <2>1. IsFiniteSet({f[i] : i \in Ids}) /\ Cardinality({f[i] : i \in Ids}) <= Cardinality(Ids)
    <3>1. f = [i \in Ids |-> f[i]]
      OBVIOUS
    <3> HIDE DEF f
    <3> QED BY <1>1, <3>1, ImageBound
  <2>2. stored = {f[i] : i \in Ids}
    OBVIOUS
  <2> QED BY <2>1, <2>2
<1>3. IsFiniteSet(Sent(flight)) /\ Cardinality(Sent(flight)) <= MaxFlight
  BY FS_Subset DEF FlightInv, Sent
<1>4. IsFiniteSet(under) /\ Cardinality(under) <= Cardinality(Sent(flight))
  <2> DEFINE f == [r \in Sent(flight) |-> r.key]
  <2>1. IsFiniteSet({f[i] : i \in Sent(flight)}) /\ Cardinality({f[i] : i \in Sent(flight)}) <= Cardinality(Sent(flight))
    <3>1. f = [i \in Sent(flight) |-> f[i]]
      OBVIOUS
    <3> HIDE DEF f
    <3> QED BY <1>3, <3>1, ImageBound
  <2>2. under = {f[i] : i \in Sent(flight)}
    OBVIOUS
  <2> QED BY <2>1, <2>2
<1>5. IsFiniteSet(Keys) /\ Cardinality(Keys) = MaxImports + MaxFlight + 1
  BY FS_Interval, BoundsAssumption DEF Keys
<1>6. \E k \in Keys : k \notin stored \cup under
  <2> HIDE DEF stored, under
  <2> SUFFICES ASSUME Keys \subseteq stored \cup under PROVE FALSE
    OBVIOUS
  <2>1. Cardinality(Keys) <= Cardinality(stored \cup under) /\ IsFiniteSet(stored \cup under)
    BY <1>2, <1>4, UnionBound, FS_Subset
  <2>2. Cardinality(stored \cup under) <= Cardinality(stored) + Cardinality(under)
    BY <1>2, <1>4, UnionBound
  <2> QED BY <1>1, <1>2, <1>3, <1>4, <1>5, <2>1, <2>2, FS_CardinalityType, BoundsAssumption
<1> DEFINE Free(k) == (\A i \in Ids : imports[i].key # k) /\ (\A r \in flight : r.key # k)
<1>7. \E k \in Keys : Free(k)
  <2>1. PICK k \in Keys : k \notin stored \cup under
    BY <1>6
  <2>2. k # 0
    BY BoundsAssumption DEF Keys
  <2>3. \A r \in flight : r.key # 0 => r \in Sent(flight)
    <3>1. \A r \in flight : r.key # 0 => r.op = "commit"
      BY DEF RequestsInv, RequestFits
    <3> QED BY <3>1 DEF Sent, Writes
  <2> QED BY <2>1, <2>2, <2>3
<1>8. \E k \in Keys : Free(k) /\ \A j \in Keys : j < k => ~Free(j)
  <2> DEFINE free == {k \in Keys : Free(k)}
  <2>1. free \subseteq Nat /\ free # {}
    BY <1>7 DEF Keys
  <2>2. \E m \in free : \A k \in free : m <= k
    <3> HIDE DEF free
    <3> QED BY <2>1, Smallest
  <2>3. PICK m \in free : \A k \in free : m <= k
    BY <2>2
  <2>4. \A j \in Keys : j < m => ~Free(j)
    BY <2>1, <2>3 DEF Keys
  <2> QED BY <2>3, <2>4
<1>9. Free(Uid)
  BY <1>8 DEF Uid
<1> QED BY <1>8, <1>9 DEF Uid

----------------------------------------------------------------------------
(* The steps of the service                                                *)

Uploaded(i) ==
  /\ \A j \in Ids : imports[j].status # "none" <=> j < i
  /\ \E f \in Files, b \in 0 .. MaxImports :
       Set(i, [NoImport EXCEPT !.file = f, !.status = "preview_ready", !.base = b])

\* By a request, with its key, or by another page.
CommittedWith(i, key) ==
  /\ imports[i].status = "preview_ready" /\ key \in Keys \cup {0}
  /\ \E sheets \in SUBSET Sheets, ticks \in SUBSET Ticks :
       /\ sheets \subseteq Usable(FileOf(i)) /\ Needs[FileOf(i)] \subseteq ticks
       /\ Set(i, Stored(imports[i], key, sheets, ticks))

Closed(i) ==
  \/ imports[i].status = "preview_ready" /\ Set(i, [imports[i] EXCEPT !.status = "discarded"])
  \/ imports[i].status = "committed" /\ Set(i, [imports[i] EXCEPT !.status = "reverted"])

CommitKey(i, key) ==
  key = 0 \/ \E r \in flight : r.op = "commit" /\ r.id = i /\ r.key = key

ImportStep ==
  \/ UNCHANGED imports
  \/ \E i \in Ids : \/ Uploaded(i) \/ Closed(i)
                    \/ \E key \in Keys \cup {0} : CommitKey(i, key) /\ CommittedWith(i, key)

\* The id of the next import is that of none yet.
LEMMA NewId ==
  ASSUME ImportsInv, NEW i \in Ids, i = Cardinality(Ids \ With({"none"})) + 1
  PROVE  \A j \in Ids : imports[j].status # "none" <=> j < i
<1>1. PICK n \in 0 .. MaxImports : \A j \in Ids : imports[j].status # "none" <=> j <= n
  BY DEF ImportsInv
<1>2. n \in Nat /\ n <= MaxImports
  BY <1>1, BoundsAssumption
<1>3. Ids \ With({"none"}) = 1 .. n
  BY <1>1, <1>2, BoundsAssumption DEF Ids, With
<1>4. Cardinality(1 .. n) = n
  BY <1>2, FS_Interval
<1>5. i = n + 1
  BY <1>3, <1>4
<1>6. \A j \in Ids : j \in Int
  BY DEF Ids
<1> QED BY <1>1, <1>2, <1>5, <1>6

LEMMA WithIds ==
  \A S : With(S) \subseteq Ids /\ \A i \in Ids : i \in With(S) <=> imports[i].status \in S
BY DEF With

LEMMA ServeImports ==
  ASSUME TypeInv, ImportsInv, RequestsInv, NEW r \in flight, Serve(r)
  PROVE  ImportStep
<1>0. RequestFits(r) /\ r \in RequestType
  BY DEF RequestsInv, TypeInv
<1>1. CASE ServeUpload(r)
  <2>1. SUFFICES ASSUME ~UNCHANGED imports PROVE ImportStep
    BY DEF ImportStep
  <2> DEFINE new == Cardinality(Ids \ With({"none"})) + 1
  <2>2. /\ new \in Ids /\ r.file \in Files
        /\ Set(new, [NoImport EXCEPT !.file = r.file, !.status = "preview_ready",
                                     !.base = Newest(With({"committed"}))])
    BY <1>0, <1>1, <2>1 DEF ServeUpload, Refuse, RequestFits
  <2>3. Newest(With({"committed"})) \in 0 .. MaxImports
    BY NewestIs, WithIds
  <2>4. \A j \in Ids : imports[j].status # "none" <=> j < new
    BY <2>2, NewId
  <2> HIDE DEF new
  <2> QED BY <2>2, <2>3, <2>4 DEF ImportStep, Uploaded
<1>2. CASE ServeCommit(r)
  <2>1. SUFFICES ASSUME ~UNCHANGED imports PROVE ImportStep
    BY DEF ImportStep
  <2>2. /\ imports[r.id].status = "preview_ready"
        /\ r.sheets \subseteq Usable(FileOf(r.id)) /\ Needs[FileOf(r.id)] \subseteq r.ticks
        /\ Set(r.id, Stored(imports[r.id], r.key, r.sheets, r.ticks)) /\ r.op = "commit"
    BY <1>2, <2>1 DEF ServeCommit, Refuse, Called, FileOf
  <2>3. r.id \in Ids /\ r.key \in Keys /\ r.sheets \in SUBSET Sheets /\ r.ticks \in SUBSET Ticks
    BY <1>0, <2>2 DEF RequestFits, RequestType, AboutOne, Exists
  <2>4. CommitKey(r.id, r.key) /\ CommittedWith(r.id, r.key)
    BY <2>2, <2>3 DEF CommitKey, CommittedWith
  <2> QED BY <2>3, <2>4 DEF ImportStep
<1>3. CASE ServeDiscard(r)
  <2>1. r.id \in Ids
    BY <1>0, <1>3 DEF ServeDiscard, RequestFits, AboutOne, Exists
  <2> QED BY <1>3, <2>1 DEF ServeDiscard, Refuse, ImportStep, Closed
<1>4. CASE ServeRevert(r)
  <2>1. r.id \in Ids /\ r.id # 0
    BY <1>0, <1>4, BoundsAssumption DEF ServeRevert, RequestFits, AboutOne, Exists, Ids
  <2>2. r.id = Newest(With({"committed"})) => imports[r.id].status = "committed"
    BY <2>1, NewestIs, WithIds
  <2> QED BY <1>4, <2>1, <2>2 DEF ServeRevert, Refuse, ImportStep, Closed
<1>5. CASE ServeRead(r)
  BY <1>5 DEF ServeRead, ImportStep
<1> QED BY <1>1, <1>2, <1>3, <1>4, <1>5 DEF Serve

LEMMA OtherImports ==
  ASSUME TypeInv, ImportsInv, Other
  PROVE  ImportStep
<1>1. ASSUME NEW f \in Files, NEW new \in Ids, new = Cardinality(Ids \ With({"none"})) + 1,
             Set(new, [NoImport EXCEPT !.file = f, !.status = "preview_ready",
                                       !.base = Newest(With({"committed"}))])
      PROVE  ImportStep
  <2>1. Newest(With({"committed"})) \in 0 .. MaxImports
    BY NewestIs, WithIds
  <2>2. \A j \in Ids : imports[j].status # "none" <=> j < new
    BY <1>1, NewId
  <2> QED BY <1>1, <2>1, <2>2 DEF ImportStep, Uploaded
<1>2. ASSUME NEW i \in With({"preview_ready"}),
             Set(i, Stored(imports[i], 0, Usable(FileOf(i)), Ticks))
      PROVE  ImportStep
  <2>1. i \in Ids /\ imports[i].status = "preview_ready"
    BY WithIds
  <2>2. FileOf(i) \in Files
    BY <2>1 DEF ImportsInv
  <2>3. Usable(FileOf(i)) \in SUBSET Sheets /\ Needs[FileOf(i)] \subseteq Ticks
    BY <2>2, FilesAssumption DEF Usable, Sheets
  <2>4. CommitKey(i, 0) /\ CommittedWith(i, 0)
    BY <1>2, <2>1, <2>3 DEF CommitKey, CommittedWith
  <2> QED BY <2>1, <2>4 DEF ImportStep
<1>3. ASSUME NEW i \in With({"preview_ready"}), Set(i, [imports[i] EXCEPT !.status = "discarded"])
      PROVE  ImportStep
  BY <1>3, WithIds DEF ImportStep, Closed
<1>4. ASSUME NEW i \in With({"committed"}), Set(i, [imports[i] EXCEPT !.status = "reverted"])
      PROVE  ImportStep
  BY <1>4, WithIds DEF ImportStep, Closed
<1> QED BY <1>1, <1>2, <1>3, <1>4 DEF Other

LEMMA StepImports ==
  ASSUME TypeInv, ImportsInv, RequestsInv, [Next]_vars
  PROVE  ImportStep
<1>1. (\E r \in flight : Lose(r) \/ Deliver(r)) \/ CodesCome \/ ListCome \/ UNCHANGED vars
      => UNCHANGED imports
  BY DEF Lose, Refuse, Deliver, CodesCome, ListCome, vars
<1>2. User => UNCHANGED imports
  BY DEF User, Upload, View, PickSheet, Tick, AskCommit, BackOut, Confirm, Discard, AskRevert,
         Revert, Reopen, Send, Toggle
<1> QED BY <1>1, <1>2, ServeImports, OtherImports DEF Next, ImportStep

\* What a step makes of an import that was there, and of one that was not.
LEMMA ImportsGoOn ==
  ASSUME TypeInv, ImportsInv, ImportStep, NEW i \in Ids
  PROVE  /\ Exists(i) => /\ imports'[i].status # "none" /\ imports'[i].file = imports[i].file
                         /\ imports'[i].status = "preview_ready" => imports[i].status = "preview_ready"
         /\ imports[i].status \in Done => imports'[i].status \in Done
         /\ imports'[i].key = imports[i].key \/ imports'[i].key = 0 \/ CommitKey(i, imports'[i].key)
<1>1. ASSUME NEW j \in Ids, Uploaded(j)
      PROVE  /\ i # j => imports'[i] = imports[i]
             /\ i = j => imports[i].status = "none" /\ imports'[i].key = 0
  BY <1>1, BoundsAssumption DEF Uploaded, Set, NoImport, TypeInv, Ids
<1>2. ASSUME NEW j \in Ids, NEW key \in Keys \cup {0}, CommittedWith(j, key), CommitKey(j, key)
      PROVE  /\ i # j => imports'[i] = imports[i]
             /\ i = j => /\ imports'[i].status = "committed" /\ imports'[i].file = imports[i].file
                         /\ imports'[i].key = key /\ imports[i].status = "preview_ready"
  <2>1. PICK sheets, ticks : imports' = [imports EXCEPT ![j] = Stored(imports[j], key, sheets, ticks)]
    BY <1>2 DEF CommittedWith, Set
  <2> QED BY <1>2, <2>1 DEF Stored, TypeInv, CommittedWith, ImportType
<1>3. ASSUME NEW j \in Ids, Closed(j)
      PROVE  /\ i # j => imports'[i] = imports[i]
             /\ i = j => /\ imports'[i].file = imports[i].file /\ imports'[i].key = imports[i].key
                         /\ \/ imports[i].status = "preview_ready" /\ imports'[i].status = "discarded"
                            \/ imports[i].status = "committed" /\ imports'[i].status = "reverted"
  BY <1>3 DEF Closed, Set, TypeInv, ImportType
<1> QED BY <1>1, <1>2, <1>3 DEF ImportStep, Exists, Done

LEMMA NextImports ==
  ASSUME TypeInv, ImportsInv, ImportStep
  PROVE  imports' \in [Ids -> ImportType] /\ ImportsInv'
<1>1. CASE UNCHANGED imports
  BY <1>1 DEF TypeInv, ImportsInv, FileOf
<1>2. ASSUME NEW i \in Ids, Uploaded(i)
      PROVE  imports' \in [Ids -> ImportType] /\ ImportsInv'
  <2>1. PICK f \in Files, b \in 0 .. MaxImports :
          imports' = [imports EXCEPT ![i] = [NoImport EXCEPT !.file = f, !.status = "preview_ready", !.base = b]]
    BY <1>2 DEF Uploaded, Set
  <2> DEFINE new == [NoImport EXCEPT !.file = f, !.status = "preview_ready", !.base = b]
  <2>2. new \in ImportType /\ new.status = "preview_ready" /\ new.file = f
    BY DEF NoImport, ImportType, Statuses
  <2> HIDE DEF new
  <2>3. imports' = [imports EXCEPT ![i] = new]
    BY <2>1 DEF new
  <2>4. imports' \in [Ids -> ImportType] /\ \A j \in Ids : imports'[j] = IF j = i THEN new ELSE imports[j]
    BY <2>2, <2>3 DEF TypeInv
  <2>5. i \in 0 .. MaxImports /\ \A j \in Ids : j \in Int
    BY BoundsAssumption DEF Ids
  <2>6. \A j \in Ids : imports'[j].status # "none" <=> j <= i
    BY <1>2, <2>2, <2>4, <2>5 DEF Uploaded
  <2>7. \A j \in Ids : imports'[j].status # "none" => imports'[j].file \in Files
    BY <2>2, <2>4 DEF ImportsInv, FileOf
  <2> QED BY <2>4, <2>5, <2>6, <2>7 DEF ImportsInv, FileOf
<1>3. ASSUME NEW i \in Ids, NEW imp \in ImportType, imports' = [imports EXCEPT ![i] = imp],
             imp.status # "none", imp.file = imports[i].file, Exists(i)
      PROVE  imports' \in [Ids -> ImportType] /\ ImportsInv'
  <2>1. imports' \in [Ids -> ImportType] /\ \A j \in Ids : imports'[j] = IF j = i THEN imp ELSE imports[j]
    BY <1>3 DEF TypeInv
  <2>2. \A j \in Ids : /\ imports'[j].status # "none" <=> imports[j].status # "none"
                       /\ imports'[j].file = imports[j].file
    BY <1>3, <2>1 DEF Exists
  <2> QED BY <2>1, <2>2 DEF ImportsInv, FileOf
<1>4. ASSUME NEW i \in Ids, NEW key \in Keys \cup {0}, CommittedWith(i, key)
      PROVE  imports' \in [Ids -> ImportType] /\ ImportsInv'
  <2>1. PICK sheets \in SUBSET Sheets, ticks \in SUBSET Ticks :
          imports' = [imports EXCEPT ![i] = Stored(imports[i], key, sheets, ticks)]
    BY <1>4 DEF CommittedWith, Set
  <2>2. imports[i] \in ImportType /\ Exists(i)
    BY <1>4 DEF TypeInv, Exists, CommittedWith
  <2>3. Taken(imports[i].file, sheets) \in SUBSET Sheets
    BY <2>2 DEF Taken, Usable, Sheets, ImportsInv, FileOf, Exists
  <2> DEFINE imp == Stored(imports[i], key, sheets, ticks)
  <2>4. imp \in ImportType /\ imp.status # "none" /\ imp.file = imports[i].file
    BY <2>2, <2>3 DEF Stored, ImportType, Statuses
  <2> QED BY <1>3, <2>1, <2>2, <2>4
<1>5. ASSUME NEW i \in Ids, Closed(i)
      PROVE  imports' \in [Ids -> ImportType] /\ ImportsInv'
  <2>1. PICK status \in {"discarded", "reverted"} : imports' = [imports EXCEPT ![i] = [imports[i] EXCEPT !.status = status]]
    BY <1>5 DEF Closed, Set
  <2>2. imports[i] \in ImportType /\ Exists(i)
    BY <1>5 DEF TypeInv, Exists, Closed
  <2> DEFINE imp == [imports[i] EXCEPT !.status = status]
  <2>3. imp \in ImportType /\ imp.status # "none" /\ imp.file = imports[i].file
    BY <2>2 DEF ImportType, Statuses
  <2> QED BY <1>3, <2>1, <2>2, <2>3
<1> QED BY <1>1, <1>2, <1>4, <1>5 DEF ImportStep

LEMMA NextSound ==
  ASSUME TypeInv, ImportsInv, ImportStep, CommitsSound
  PROVE  CommitsSound'
<1> DEFINE Sound(imp) == imp.status \in Done => /\ imp.took \cap Blocked[imp.file] = {}
                                                /\ Needs[imp.file] \subseteq imp.ticks
<1>1. \A i \in Ids : Sound(imports[i])
  BY DEF CommitsSound, With, FileOf, Done
<1>2. ASSUME NEW i \in Ids, NEW imp, Sound(imp), imports' = [imports EXCEPT ![i] = imp]
      PROVE  \A j \in Ids : Sound(imports'[j])
  BY <1>1, <1>2 DEF TypeInv
<1>3. ASSUME NEW i \in Ids, Uploaded(i) PROVE \A j \in Ids : Sound(imports'[j])
  <2>1. PICK f, b :
          imports' = [imports EXCEPT ![i] = [NoImport EXCEPT !.file = f, !.status = "preview_ready", !.base = b]]
    BY <1>3 DEF Uploaded, Set
  <2>2. Sound([NoImport EXCEPT !.file = f, !.status = "preview_ready", !.base = b])
    BY DEF NoImport, Done
  <2> QED BY <1>2, <2>1, <2>2
<1>4. ASSUME NEW i \in Ids, NEW key \in Keys \cup {0}, CommittedWith(i, key)
      PROVE  \A j \in Ids : Sound(imports'[j])
  <2>1. PICK sheets \in SUBSET Sheets, ticks \in SUBSET Ticks :
          /\ sheets \subseteq Usable(FileOf(i)) /\ Needs[FileOf(i)] \subseteq ticks
          /\ imports' = [imports EXCEPT ![i] = Stored(imports[i], key, sheets, ticks)]
    BY <1>4 DEF CommittedWith, Set
  <2>2. Taken(imports[i].file, sheets) \cap Blocked[imports[i].file] = {}
    BY <2>1 DEF Taken, Usable, FileOf
  <2>3. Sound(Stored(imports[i], key, sheets, ticks))
    BY <2>1, <2>2 DEF Stored, FileOf, TypeInv, ImportType
  <2> QED BY <1>2, <2>1, <2>3
<1>5. ASSUME NEW i \in Ids, Closed(i) PROVE \A j \in Ids : Sound(imports'[j])
  <2>1. PICK status : /\ imports' = [imports EXCEPT ![i] = [imports[i] EXCEPT !.status = status]]
                      /\ status = "discarded" \/ imports[i].status = "committed"
    BY <1>5 DEF Closed, Set
  <2>2. Sound([imports[i] EXCEPT !.status = status])
    BY <1>1, <2>1 DEF TypeInv, ImportType, Done
  <2> QED BY <1>2, <2>1, <2>2
<1>6. \A i \in Ids : Sound(imports'[i])
  BY <1>1, <1>3, <1>4, <1>5 DEF ImportStep
<1> QED BY <1>6 DEF CommitsSound, With, FileOf, Done

----------------------------------------------------------------------------
(* The requests                                                            *)

LEMMA RequestIs ==
  ASSUME NEW op \in {"discard", "revert", "view", "resume", "resume list"}, NEW id \in Ids \cup {0},
         op # "resume list" => Exists(id)
  PROVE  Request(op, id) \in RequestType /\ RequestFits(Request(op, id))
<1> DEFINE q == Request(op, id)
<1>1. /\ q \in RequestType /\ q.op = op /\ q.id = id /\ q.key = 0
      /\ q.result = "sent" /\ q.heard = TRUE
  BY DEF Request, RequestType, Statuses, Writes
<1> HIDE DEF q
<1>2. RequestFits(q)
  BY <1>1 DEF RequestFits, AboutOne
<1> QED BY <1>1, <1>2 DEF q

\* A request that fitted still does after a step of the service.
LEMMA FitsOn ==
  ASSUME TypeInv, ImportsInv, ImportStep, NEW r \in RequestType, RequestFits(r)
  PROVE  RequestFits(r)'
<1>1. \A i \in Ids : Exists(i) => imports'[i].status # "none" /\ imports'[i].file = imports[i].file
  BY ImportsGoOn
<1>2. \A i \in Ids : imports[i].status \in Done => imports'[i].status \in Done
  BY ImportsGoOn
<1> QED BY <1>1, <1>2 DEF RequestFits, Exists, FileOf, AboutOne

\* What an answer must say for its request to go on fitting.
AnswerFits(r, result, got, status) ==
  /\ result \in {"ok", "known", "error"} /\ got \in Ids \cup {0} /\ status \in Statuses
  /\ result # "error" => Exists(got) \/ (r.op = "resume list" /\ got = 0)
  /\ r.op = "commit" /\ result = "ok" => imports[r.id].status \in Done

LEMMA AnswersFit ==
  ASSUME TypeInv, ImportsInv, RequestsInv, ImportStep,
         NEW r \in flight, NEW result, NEW got, NEW status,
         Answered(r, result, got, status), AnswerFits(r, result, got, status)'
  PROVE  flight' \subseteq RequestType /\ RequestsInv'
<1> DEFINE answer == [r EXCEPT !.result = result, !.got = got, !.status = status]
<1>1. r \in RequestType /\ RequestFits(r)
  BY DEF TypeInv, RequestsInv
<1>2. RequestFits(r)'
  BY <1>1, FitsOn
<1>3. /\ answer \in RequestType /\ answer.op = r.op /\ answer.id = r.id /\ answer.file = r.file
      /\ answer.sheets = r.sheets /\ answer.key = r.key /\ answer.heard = r.heard
      /\ answer.result = result /\ answer.got = got
  BY <1>1 DEF AnswerFits, RequestType
<1>4. \A q \in flight' : q \in flight \/ (q = answer /\ r.heard)
  BY DEF Answered
<1> HIDE DEF answer
<1>5. r.heard => RequestFits(answer)'
  BY <1>2, <1>3 DEF RequestFits, AnswerFits
<1>6. \A q \in flight : q \in RequestType /\ RequestFits(q)'
  BY FitsOn DEF TypeInv, RequestsInv
<1> QED BY <1>3, <1>4, <1>5, <1>6 DEF RequestsInv

LEMMA ServeRequests ==
  ASSUME TypeInv, ImportsInv, RequestsInv, KeysInv, ImportStep, NEW r \in flight, Serve(r)
  PROVE  flight' \subseteq RequestType /\ RequestsInv'
<1>0. r \in RequestType /\ RequestFits(r)
  BY DEF TypeInv, RequestsInv
<1>1. \A i \in Ids : imports[i].status \in Statuses
  BY DEF TypeInv, ImportType
<1>2. \A i \in Ids : /\ Exists(i) => imports'[i].status # "none"
                     /\ imports[i].status \in Done => imports'[i].status \in Done
  BY ImportsGoOn
<1>3. \A i \in Ids : imports'[i] \in ImportType
  BY NextImports
<1>4. ASSUME Refuse(r) PROVE flight' \subseteq RequestType /\ RequestsInv'
  <2>1. AnswerFits(r, "error", 0, "none")'
    BY DEF AnswerFits, Statuses
  <2> QED BY <1>4, <2>1, AnswersFit DEF Refuse
<1>5. CASE ServeUpload(r)
  <2>1. ASSUME NEW i \in With(Live), Answered(r, "known", i, imports[i].status)
        PROVE  flight' \subseteq RequestType /\ RequestsInv'
    <3>1. AnswerFits(r, "known", i, imports[i].status) /\ Exists(i) /\ i \in Ids
      BY <1>1 DEF AnswerFits, Exists, With, Live
    <3> DEFINE status == imports[i].status
    <3>2. PICK s : s = status
      OBVIOUS
    <3>3. AnswerFits(r, "known", i, s)'
      BY <1>2, <3>1, <3>2 DEF AnswerFits, Exists
    <3> QED BY <2>1, <3>2, <3>3, AnswersFit
  <2>2. ASSUME NEW i \in Ids, imports'[i].status = "preview_ready", Answered(r, "ok", i, "preview_ready"),
               r.op = "upload"
        PROVE  flight' \subseteq RequestType /\ RequestsInv'
    <3>1. AnswerFits(r, "ok", i, "preview_ready")'
      BY <2>2 DEF AnswerFits, Exists, Statuses
    <3> QED BY <2>2, <3>1, AnswersFit
  <2>3. \A i \in Ids : \A f, b : Set(i, [NoImport EXCEPT !.file = f, !.status = "preview_ready", !.base = b])
          => imports'[i].status = "preview_ready"
    BY DEF Set, TypeInv, NoImport
  <2>4. r.op = "upload"
    BY <1>5 DEF ServeUpload
  <2> DEFINE new == Cardinality(Ids \ With({"none"})) + 1
  <2>5. \/ \E i \in With(Live) : Answered(r, "known", i, imports[i].status)
        \/ /\ new \in Ids /\ Answered(r, "ok", new, "preview_ready")
           /\ Set(new, [NoImport EXCEPT !.file = r.file, !.status = "preview_ready",
                                        !.base = Newest(With({"committed"}))])
        \/ Refuse(r)
    BY <1>5 DEF ServeUpload, Live
  <2> HIDE DEF new
  <2> QED BY <1>4, <2>1, <2>2, <2>3, <2>4, <2>5
<1>6. CASE ServeCommit(r)
  <2>1. r.id \in Ids /\ Exists(r.id) /\ r.key \in Keys /\ r.key # 0 /\ r.op = "commit"
    BY <1>0, <1>6, BoundsAssumption DEF ServeCommit, RequestFits, AboutOne, Exists, Keys
  <2>2. ASSUME NEW j \in With({"committed"}), imports[j].key = r.key, Answered(r, "ok", j, "committed")
        PROVE  flight' \subseteq RequestType /\ RequestsInv'
    <3>1. j \in Ids /\ imports[j].status = "committed" /\ j = r.id
      BY <2>1, <2>2 DEF With, KeysInv
    <3>2. AnswerFits(r, "ok", j, "committed")'
      BY <1>2, <3>1 DEF AnswerFits, Exists, Statuses, Done
    <3> QED BY <2>2, <3>2, AnswersFit
  <2>3. ASSUME Set(r.id, Stored(imports[r.id], r.key, r.sheets, r.ticks)), Answered(r, "ok", r.id, "committed")
        PROVE  flight' \subseteq RequestType /\ RequestsInv'
    <3>1. imports'[r.id].status = "committed"
      BY <2>1, <2>3 DEF Set, Stored, TypeInv, ImportType
    <3>2. PICK i \in Ids : i = r.id
      BY <2>1
    <3>3. AnswerFits(r, "ok", i, "committed")'
      BY <3>1, <3>2 DEF AnswerFits, Exists, Statuses, Done
    <3> QED BY <2>3, <3>2, <3>3, AnswersFit
  <2> QED BY <1>4, <1>6, <2>2, <2>3 DEF ServeCommit
<1>7. CASE ServeDiscard(r) \/ ServeRevert(r)
  <2>1. r.id \in Ids /\ Exists(r.id) /\ r.op # "commit"
    BY <1>0, <1>7 DEF ServeDiscard, ServeRevert, RequestFits, AboutOne, Exists
  <2>2. AnswerFits(r, "ok", r.id, "discarded")' /\ AnswerFits(r, "ok", r.id, "reverted")'
    BY <1>2, <2>1 DEF AnswerFits, Exists, Statuses
  <2> QED BY <1>4, <1>7, <2>2, AnswersFit DEF ServeDiscard, ServeRevert
<1>8. CASE ServeRead(r)
  <2>1. UNCHANGED imports /\ r.op # "commit"
    BY <1>8 DEF ServeRead
  <2>2. CASE r.op = "resume list"
    <3>1. PICK i : i = Newest(With(Resumable) \cap Listed(ResumeLimit)) /\ Answered(r, "ok", i, "none")
      BY <1>8, <2>2 DEF ServeRead
    <3>2. i \in Ids \cup {0} /\ (i # 0 => i \in With(Resumable))
      <4> DEFINE S == With(Resumable) \cap Listed(ResumeLimit)
      <4>1. S \subseteq Ids /\ S \subseteq With(Resumable)
        BY WithIds
      <4> HIDE DEF S
      <4>2. i = Newest(S)
        BY <3>1 DEF S
      <4> QED BY <4>1, <4>2, NewestIs
    <3>3. i # 0 => Exists(i)
      BY <3>2, WithIds DEF Exists, Resumable
    <3>4. AnswerFits(r, "ok", i, "none")'
      BY <2>1, <2>2, <3>2, <3>3 DEF AnswerFits, Exists, Statuses
    <3> QED BY <3>1, <3>4, AnswersFit
  <2>3. CASE r.op # "resume list"
    <3>1. PICK s : s = imports[r.id].status /\ Answered(r, "ok", r.id, s)
      BY <1>8, <2>3 DEF ServeRead
    <3>2. r.id \in Ids /\ Exists(r.id)
      BY <1>0, <1>8, <2>3 DEF ServeRead, RequestFits, AboutOne, Exists
    <3>3. AnswerFits(r, "ok", r.id, s)'
      BY <1>1, <2>1, <3>1, <3>2 DEF AnswerFits, Exists
    <3> QED BY <3>1, <3>3, AnswersFit
  <2> QED BY <2>2, <2>3
<1> QED BY <1>5, <1>6, <1>7, <1>8 DEF Serve

----------------------------------------------------------------------------
(* The page                                                                *)

LEMMA UsableIs ==
  ASSUME TypeInv, ImportsInv, NEW i, Exists(i)
  PROVE  i \in Ids /\ i # 0 /\ FileOf(i) \in Files /\ Usable(FileOf(i)) \in SUBSET Sheets
BY BoundsAssumption DEF Exists, ImportsInv, Usable, Sheets, Ids

LEMMA ShowFits ==
  ASSUME TypeInv, ImportsInv, RequestsInv, FlightInv, PageInv,
         NEW id \in Ids, Exists(id), NEW status \in Statuses, NEW full \in BOOLEAN
  PROVE  /\ Show(page, id, status, full) \in PageType
         /\ PageFits(Show(page, id, status, full))
         /\ Show(page, id, status, full).shown = id
<1>1. page \in PageType /\ PageFits(page) /\ id # 0
  BY UsableIs DEF TypeInv, PageInv
<1>2. CASE page.shown = id
  <2> DEFINE pg == [page EXCEPT !.status = status, !.full = full]
  <2>1. /\ pg \in PageType /\ pg.shown = page.shown /\ pg.picked = page.picked /\ pg.key = page.key
        /\ pg.offered = page.offered /\ pg.thanked = page.thanked /\ pg.open = page.open
    BY <1>1 DEF PageType
  <2> HIDE DEF pg
  <2>2. PageFits(pg)
    BY <1>1, <1>2, <2>1 DEF PageFits
  <2> QED BY <1>2, <2>1, <2>2 DEF Show, pg
<1>3. CASE page.shown # id
  <2>1. Usable(FileOf(id)) \in SUBSET Sheets
    BY UsableIs
  <2>2. Uid \in Keys
    BY UidIsFresh
  <2>3. PICK key \in Keys, picked \in SUBSET Sheets :
          key = Uid /\ picked = (IF full THEN Usable(FileOf(id)) ELSE {})
    BY <2>1, <2>2
  <2> DEFINE pg == [page EXCEPT !.shown = id, !.status = status, !.full = full, !.codes = FALSE,
                      !.picked = picked, !.ticked = {},
                      !.confirming = FALSE, !.committing = FALSE, !.key = key]
  <2>4. /\ pg \in PageType /\ pg.shown = id /\ pg.picked = picked /\ pg.key = key
        /\ pg.offered = page.offered /\ pg.thanked = page.thanked /\ pg.open = page.open
    BY <1>1 DEF PageType
  <2>5. Show(page, id, status, full) = pg
    BY <1>3, <2>3 DEF Show
  <2> HIDE DEF pg
  <2>6. PageFits(pg)
    BY <1>1, <2>3, <2>4 DEF PageFits
  <2> QED BY <2>4, <2>5, <2>6
<1> QED BY <1>2, <1>3

LEMMA EndedFits ==
  ASSUME TypeInv, PageInv, NEW r
  PROVE  /\ Ended(page, r) \in PageType /\ PageFits(Ended(page, r))
         /\ Ended(page, r).open = page.open /\ Ended(page, r).shown = page.shown
         /\ Ended(page, r).key = page.key
<1> DEFINE pg == [page EXCEPT !.committing = FALSE, !.confirming = FALSE]
<1>1. page \in PageType /\ PageFits(page)
  BY DEF TypeInv, PageInv
<1>2. /\ pg \in PageType /\ pg.shown = page.shown /\ pg.picked = page.picked /\ pg.key = page.key
      /\ pg.offered = page.offered /\ pg.thanked = page.thanked /\ pg.open = page.open
      /\ pg.status = page.status /\ pg.full = page.full /\ pg.confirming = FALSE
  BY <1>1 DEF PageType
<1> HIDE DEF pg
<1>3. PageFits(pg)
  BY <1>1, <1>2 DEF PageFits
<1> QED BY <1>1, <1>2, <1>3 DEF Ended, pg

\* The parts of the page that nothing else depends on.
LEMMA ListingFits ==
  ASSUME TypeInv, NEW pg \in PageType, PageFits(pg)
  PROVE  /\ [pg EXCEPT !.listing = TRUE] \in PageType /\ PageFits([pg EXCEPT !.listing = TRUE])
         /\ [pg EXCEPT !.open = {}] \in PageType /\ PageFits([pg EXCEPT !.open = {}])
BY DEF PageType, PageFits

LEMMA DeliverPage ==
  ASSUME TypeInv, ImportsInv, RequestsInv, FlightInv, PageInv, NEW r \in flight, Deliver(r)
  PROVE  page' \in PageType /\ PageFits(page')
<1>0. /\ r \in RequestType /\ RequestFits(r) /\ page \in PageType /\ PageFits(page)
      /\ r.status \in Statuses
  BY DEF TypeInv, RequestsInv, PageInv, RequestType
<1>1. CASE r.op = "upload" /\ r.result \in {"ok", "known"}
           /\ page' = [Show(page, r.got, r.status, r.result = "ok") EXCEPT !.listing = TRUE]
  <2>1. r.got \in Ids /\ Exists(r.got)
    BY <1>0, <1>1 DEF RequestFits, Exists
  <2> QED BY <1>0, <1>1, <2>1, ShowFits, ListingFits
<1>2. CASE r.op = "view" /\ r.result = "ok"
           /\ page' = [Show(page, r.got, r.status, TRUE) EXCEPT !.listing = TRUE]
  <2>1. r.got \in Ids /\ Exists(r.got)
    BY <1>0, <1>2 DEF RequestFits, Exists
  <2> QED BY <1>0, <1>2, <2>1, ShowFits, ListingFits
<1>3. CASE r.op = "resume" /\ r.result = "ok" /\ page' = Show(page, r.got, r.status, TRUE)
  <2>1. r.got \in Ids /\ Exists(r.got)
    BY <1>0, <1>3 DEF RequestFits, Exists
  <2> QED BY <1>0, <1>3, <2>1, ShowFits
<1>4. CASE page' = page
  BY <1>0, <1>4
<1>5. CASE r.op = "commit" /\ r.result = "ok"
           /\ page' = [Ended(page, r) EXCEPT !.thanked = r.id, !.listing = TRUE]
  <2>1. r.id \in Ids /\ imports[r.id].status \in Done
    BY <1>0, <1>5 DEF RequestFits, Exists, AboutOne
  <2>2. PICK pg \in PageType : pg = Ended(page, r) /\ PageFits(pg)
    BY EndedFits
  <2>3. PICK i \in Ids : i = r.id
    BY <2>1
  <2>4. [pg EXCEPT !.thanked = i, !.listing = TRUE] \in PageType
    BY DEF PageType
  <2>5. PageFits([pg EXCEPT !.thanked = i, !.listing = TRUE])
    BY <2>1, <2>2, <2>3 DEF PageFits, PageType
  <2> QED BY <1>5, <2>2, <2>3, <2>4, <2>5
<1>6. CASE page' = Ended(page, r)
  BY <1>6, EndedFits
<1>7. CASE page' = [page EXCEPT !.shown = 0, !.status = "none", !.full = FALSE, !.codes = FALSE,
                               !.picked = {}, !.ticked = {}, !.confirming = FALSE,
                               !.committing = FALSE, !.key = 0, !.thanked = 0, !.listing = TRUE]
  BY <1>0, <1>7 DEF PageType, PageFits, Statuses
<1>8. CASE page' = [page EXCEPT !.reverting = 0, !.thanked = 0, !.listing = TRUE]
  BY <1>0, <1>8 DEF PageType, PageFits
<1>9. CASE page' = [page EXCEPT !.open = {}]
  BY <1>0, <1>9 DEF PageType, PageFits
<1> QED BY <1>1, <1>2, <1>3, <1>4, <1>5, <1>6, <1>7, <1>8, <1>9 DEF Deliver, Read, ReadAndSend

LEMMA UserPage ==
  ASSUME TypeInv, ImportsInv, PageInv, User \/ CodesCome \/ ListCome
  PROVE  page' \in PageType /\ PageFits(page')
<1>0. page \in PageType /\ PageFits(page)
  BY DEF TypeInv, PageInv
<1>1. ASSUME NEW pg \in PageType, PageFits(pg), page' = [pg EXCEPT !.open = {}]
      PROVE  page' \in PageType /\ PageFits(page')
  BY <1>1, ListingFits
<1>2. ASSUME NEW f \in Files, Upload(f) PROVE page' \in PageType /\ PageFits(page')
  BY <1>0, <1>1, <1>2 DEF Upload, Send
<1>3. ASSUME NEW i \in Ids, View(i) PROVE page' \in PageType /\ PageFits(page')
  <2>1. [page EXCEPT !.thanked = 0] \in PageType /\ PageFits([page EXCEPT !.thanked = 0])
    BY <1>0 DEF PageType, PageFits
  <2> QED BY <1>1, <1>3, <2>1 DEF View, Send
<1>4. ASSUME NEW s \in Sheets, PickSheet(s) PROVE page' \in PageType /\ PageFits(page')
  <2>1. page.full /\ s \in Usable(FileOf(page.shown)) /\ page.shown # 0
    BY <1>0, <1>4 DEF PickSheet, PageFits
  <2>2. PICK picked \in SUBSET Sheets : 
          picked = IF s \in page.picked THEN page.picked \ {s} ELSE page.picked \cup {s}
    BY <1>0 DEF PageType
  <2>3. [page EXCEPT !.picked = picked] \in PageType
    BY <1>0 DEF PageType
  <2>4. picked \subseteq Usable(FileOf(page.shown))
    BY <1>0, <2>1, <2>2 DEF PageFits
  <2>5. PageFits([page EXCEPT !.picked = picked])
    BY <1>0, <2>1, <2>4 DEF PageFits, PageType
  <2>6. page' = [[page EXCEPT !.picked = picked] EXCEPT !.open = {}]
    BY <1>4, <2>2 DEF PickSheet, Toggle
  <2> QED BY <1>1, <2>3, <2>5, <2>6
<1>5. ASSUME NEW k \in Ticks, Tick(k) PROVE page' \in PageType /\ PageFits(page')
  <2>1. PICK ticked \in SUBSET Ticks :
          ticked = IF k \in page.ticked THEN page.ticked \ {k} ELSE page.ticked \cup {k}
    BY <1>0 DEF PageType
  <2>2. [page EXCEPT !.ticked = ticked] \in PageType /\ PageFits([page EXCEPT !.ticked = ticked])
    BY <1>0 DEF PageFits, PageType
  <2>3. page' = [[page EXCEPT !.ticked = ticked] EXCEPT !.open = {}]
    BY <1>5, <2>1 DEF Tick, Toggle
  <2> QED BY <1>1, <2>2, <2>3
<1>6. CASE AskCommit
  <2>1. page.shown # 0
    BY <1>6 DEF AskCommit, CanCommit
  <2>2. [page EXCEPT !.confirming = TRUE] \in PageType /\ PageFits([page EXCEPT !.confirming = TRUE])
    BY <1>0, <2>1 DEF PageFits, PageType
  <2> QED BY <1>1, <1>6, <2>2 DEF AskCommit, Toggle
<1>7. CASE BackOut
  <2>1. [page EXCEPT !.confirming = FALSE] \in PageType /\ PageFits([page EXCEPT !.confirming = FALSE])
    BY <1>0 DEF PageFits, PageType
  <2> QED BY <1>1, <1>7, <2>1 DEF BackOut, Toggle
<1>8. CASE Confirm
  <2>1. [page EXCEPT !.committing = TRUE] \in PageType /\ PageFits([page EXCEPT !.committing = TRUE])
    BY <1>0 DEF PageFits, PageType
  <2> QED BY <1>1, <1>8, <2>1 DEF Confirm, Send
<1>9. CASE Discard \/ Revert
  BY <1>0, <1>1, <1>9 DEF Discard, Revert, Send
<1>10. CASE AskRevert
  <2>1. PICK i \in Ids \cup {0} : i = IF page.reverting = page.offered THEN 0 ELSE page.offered
    BY <1>0 DEF PageType
  <2>2. [page EXCEPT !.reverting = i] \in PageType /\ PageFits([page EXCEPT !.reverting = i])
    BY <1>0 DEF PageFits, PageType
  <2>3. page' = [[page EXCEPT !.reverting = i] EXCEPT !.open = {}]
    BY <1>10, <2>1 DEF AskRevert, Toggle
  <2> QED BY <1>1, <2>2, <2>3
<1>11. CASE Reopen
  <2>1. PICK was \in SUBSET Ids : was = With({"preview_ready"})
    BY WithIds
  <2>2. \A i \in was : Exists(i)
    BY <2>1 DEF With, Exists
  <2>3. Opened(was) \in PageType /\ PageFits(Opened(was))
    BY <2>2 DEF Opened, PageType, PageFits, Statuses
  <2> QED BY <1>11, <2>1, <2>3 DEF Reopen
<1>12. CASE CodesCome
  BY <1>0, <1>12 DEF CodesCome, PageType, PageFits
<1>13. CASE ListCome
  <2> DEFINE S == With({"committed"}) \cap Listed(HistoryLimit)
  <2>0. S \subseteq Ids /\ S \subseteq With({"committed"})
    BY WithIds
  <2> HIDE DEF S
  <2>1. PICK i \in Ids \cup {0} : i = Newest(S) /\ (i # 0 => i \in With({"committed"}))
    BY <2>0, NewestIs
  <2>2. i # 0 => Exists(i)
    BY <2>1 DEF With, Exists
  <2>3. LET pg == [page EXCEPT !.listing = FALSE, !.offered = i] IN pg \in PageType /\ PageFits(pg)
    BY <1>0, <2>2 DEF PageFits, PageType
  <2> QED BY <1>13, <2>1, <2>3 DEF ListCome, S
<1> QED BY <1>2, <1>3, <1>4, <1>5, <1>6, <1>7, <1>8, <1>9, <1>10, <1>11, <1>12, <1>13 DEF User

LEMMA NextPage ==
  ASSUME TypeInv, ImportsInv, RequestsInv, FlightInv, PageInv, [Next]_vars
  PROVE  page' \in PageType /\ PageInv'
<1>0. ImportStep /\ page \in PageType /\ PageFits(page)
  BY StepImports DEF TypeInv, PageInv
<1>1. ASSUME page' \in PageType, PageFits(page'), UNCHANGED imports
      PROVE  page' \in PageType /\ PageInv'
  BY <1>1 DEF PageInv, PageFits, Exists, FileOf
<1>2. ASSUME UNCHANGED page
      PROVE  page' \in PageType /\ PageInv'
  <2>1. \A i \in Ids : /\ Exists(i) => imports'[i].status # "none" /\ imports'[i].file = imports[i].file
                       /\ imports[i].status \in Done => imports'[i].status \in Done
    BY <1>0, ImportsGoOn
  <2>2. page.thanked # 0 => page.thanked \in Ids
    BY <1>0 DEF PageType
  <2> QED BY <1>0, <1>2, <2>1, <2>2 DEF PageInv, PageFits, Exists, FileOf
<1>3. ASSUME NEW r \in flight, Deliver(r) PROVE page' \in PageType /\ PageInv'
  BY <1>1, <1>3, DeliverPage DEF Deliver
<1>4. User \/ CodesCome \/ ListCome => UNCHANGED imports
  BY DEF User, Upload, View, PickSheet, Tick, AskCommit, BackOut, Confirm, Discard, AskRevert,
         Revert, Reopen, Send, Toggle, CodesCome, ListCome
<1>5. (\E r \in flight : Serve(r) \/ Lose(r)) \/ Other \/ UNCHANGED vars => UNCHANGED page
  BY DEF Serve, Lose, Other, vars
<1> QED BY <1>1, <1>2, <1>3, <1>4, <1>5, UserPage DEF Next

----------------------------------------------------------------------------
(* What is under way                                                       *)

LEMMA LostRequests ==
  ASSUME TypeInv, ImportsInv, RequestsInv, NEW r \in flight, Lose(r)
  PROVE  flight' \subseteq RequestType /\ RequestsInv'
<1>1. AnswerFits(r, "error", 0, "none")'
  BY DEF AnswerFits, Statuses
<1> QED BY <1>1, AnswersFit DEF Lose, Refuse, ImportStep

\* With imports left alone, requests that fit may be added.
LEMMA MoreRequests ==
  ASSUME TypeInv, RequestsInv, UNCHANGED imports,
         \A q \in flight' : q \in flight \/ (q \in RequestType /\ RequestFits(q))
  PROVE  flight' \subseteq RequestType /\ RequestsInv'
<1>1. \A q \in flight' : q \in RequestType /\ RequestFits(q)
  BY DEF TypeInv, RequestsInv
<1>2. \A q : RequestFits(q) => RequestFits(q)'
  BY DEF RequestFits, Exists, FileOf
<1> QED BY <1>1, <1>2 DEF RequestsInv

LEMMA DeliverRequests ==
  ASSUME TypeInv, RequestsInv, NEW r \in flight, Deliver(r)
  PROVE  flight' \subseteq RequestType /\ RequestsInv'
<1>1. r \in RequestType /\ RequestFits(r) /\ UNCHANGED imports
  BY DEF TypeInv, RequestsInv, Deliver
<1>2. \A op \in {"view", "resume"}, i \in Ids : Exists(i) =>
        Request(op, i) \in RequestType /\ RequestFits(Request(op, i))
  BY RequestIs
<1>3. \A q \in flight' : \/ q \in flight
                         \/ \E op \in {"view", "resume"}, i \in Ids : Exists(i) /\ q = Request(op, i)
  <2>1. r.op = "resume list" /\ r.result = "ok" /\ r.got # 0 => Exists(r.got) /\ r.got \in Ids
    BY <1>1 DEF RequestFits, Exists
  <2>2. r.op = "commit" /\ r.result = "ok" => Exists(r.got) /\ r.got \in Ids
    BY <1>1 DEF RequestFits, Exists
  <2>3. r.op = "revert" => Exists(r.id) /\ r.id \in Ids
    BY <1>1 DEF RequestFits, Exists, AboutOne
  <2> QED BY <2>1, <2>2, <2>3 DEF Deliver, Read, ReadAndSend
<1> QED BY <1>1, <1>2, <1>3, MoreRequests

LEMMA UserRequests ==
  ASSUME TypeInv, ImportsInv, RequestsInv, PageInv, User
  PROVE  flight' \subseteq RequestType /\ RequestsInv'
<1>0. page \in PageType /\ PageFits(page)
  BY DEF TypeInv, PageInv
<1>1. ASSUME NEW q \in RequestType, RequestFits(q), flight' = flight \cup {q}, UNCHANGED imports
      PROVE  flight' \subseteq RequestType /\ RequestsInv'
  BY <1>1, MoreRequests
<1>2. ASSUME NEW f \in Files, Upload(f) PROVE flight' \subseteq RequestType /\ RequestsInv'
  <2> DEFINE q == [Request("upload", 0) EXCEPT !.file = f]
  <2>1. q \in RequestType /\ RequestFits(q)
    BY DEF Request, RequestType, RequestFits, AboutOne, Statuses, Writes
  <2> QED BY <1>1, <1>2, <2>1 DEF Upload, Send
<1>3. ASSUME NEW i \in Ids, View(i) PROVE flight' \subseteq RequestType /\ RequestsInv'
  <2>1. Exists(i)
    BY <1>3 DEF View, With, Exists
  <2>2. Request("view", i) \in RequestType /\ RequestFits(Request("view", i))
    BY <2>1, RequestIs
  <2> QED BY <1>1, <1>3, <2>2 DEF View, Send
<1>4. CASE Confirm
  <2>1. /\ Exists(page.shown) /\ page.shown \in Ids /\ page.key \in Keys
        /\ page.picked \subseteq Usable(FileOf(page.shown))
        /\ page.picked \in SUBSET Sheets /\ page.ticked \in SUBSET Ticks
    BY <1>0, <1>4 DEF Confirm, PageFits, PageType, Exists
  <2> DEFINE q == [Request("commit", page.shown) EXCEPT
                     !.sheets = page.picked, !.ticks = page.ticked, !.key = page.key]
  <2>2. /\ q \in RequestType /\ q.op = "commit" /\ q.id = page.shown /\ q.sheets = page.picked
        /\ q.key = page.key /\ q.result = "sent"
    BY <2>1 DEF Request, RequestType, Statuses, Writes
  <2> HIDE DEF q
  <2>3. RequestFits(q)
    BY <2>1, <2>2 DEF RequestFits
  <2>4. flight' = flight \cup {q} /\ UNCHANGED imports
    BY <1>4 DEF Confirm, Send, q
  <2> QED BY <1>1, <2>2, <2>3, <2>4
<1>5. CASE Discard
  <2>1. Exists(page.shown) /\ page.shown \in Ids
    BY <1>0, <1>5 DEF Discard, PageFits, Exists
  <2>2. Request("discard", page.shown) \in RequestType /\ RequestFits(Request("discard", page.shown))
    BY <2>1, RequestIs
  <2> QED BY <1>1, <1>5, <2>2 DEF Discard, Send
<1>6. CASE Revert
  <2>1. Exists(page.reverting) /\ page.reverting \in Ids
    BY <1>0, <1>6 DEF Revert, PageFits, Exists
  <2>2. Request("revert", page.reverting) \in RequestType /\ RequestFits(Request("revert", page.reverting))
    BY <2>1, RequestIs
  <2> QED BY <1>1, <1>6, <2>2 DEF Revert, Send
<1>7. CASE Reopen
  <2>1. \A r \in flight : r.result = "sent" => /\ [r EXCEPT !.heard = FALSE] \in RequestType
                                               /\ RequestFits([r EXCEPT !.heard = FALSE])
    BY DEF TypeInv, RequestsInv, RequestType, RequestFits
  <2>2. Request("resume list", 0) \in RequestType /\ RequestFits(Request("resume list", 0))
    BY RequestIs
  <2>3. \A q \in flight' : q \in RequestType /\ RequestFits(q)
    BY <1>7, <2>1, <2>2 DEF Reopen
  <2> QED BY <1>7, <2>3, MoreRequests DEF Reopen
<1>8. (\E s \in Sheets : PickSheet(s)) \/ (\E k \in Ticks : Tick(k)) \/ AskCommit \/ BackOut \/ AskRevert
      => UNCHANGED <<imports, flight>>
  BY DEF PickSheet, Tick, AskCommit, BackOut, AskRevert, Toggle
<1> QED BY <1>2, <1>3, <1>4, <1>5, <1>6, <1>7, <1>8, MoreRequests DEF User

LEMMA NextRequests ==
  ASSUME TypeInv, ImportsInv, RequestsInv, PageInv, KeysInv, [Next]_vars
  PROVE  flight' \subseteq RequestType /\ RequestsInv'
<1>1. ImportStep
  BY StepImports
<1>2. CodesCome \/ ListCome \/ UNCHANGED vars => UNCHANGED <<imports, flight>>
  BY DEF CodesCome, ListCome, vars
<1>3. CASE Other
  <2>1. flight' = flight
    BY <1>3 DEF Other
  <2>2. \A r \in flight : r \in RequestType /\ RequestFits(r)'
    BY <1>1, FitsOn DEF TypeInv, RequestsInv
  <2> QED BY <2>1, <2>2 DEF RequestsInv
<1> QED BY <1>1, <1>2, <1>3, ServeRequests, LostRequests, DeliverRequests, UserRequests, MoreRequests
       DEF Next

\* What the requests under way after a step were before it.
LEMMA FlightSteps ==
  ASSUME TypeInv, RequestsInv, [Next]_vars, NEW q \in flight'
  PROVE  \/ \E r \in flight : q.id = r.id /\ q.key = r.key
         \/ q.key = 0
         \/ Confirm /\ q.key = page.key /\ q.id = page.shown
<1>1. ASSUME NEW r \in flight, NEW result, NEW got, NEW status, Answered(r, result, got, status)
      PROVE  \E p \in flight : q.id = p.id /\ q.key = p.key
  <2> DEFINE answer == [r EXCEPT !.result = result, !.got = got, !.status = status]
  <2>1. answer.id = r.id /\ answer.key = r.key
    BY DEF TypeInv, RequestType
  <2>2. q \in flight \/ q = answer
    BY <1>1 DEF Answered
  <2> QED BY <2>1, <2>2
<1>2. ASSUME NEW r \in flight, Serve(r) \/ Lose(r)
      PROVE  \E p \in flight : q.id = p.id /\ q.key = p.key
  BY <1>1, <1>2 DEF Serve, Lose, Refuse, ServeUpload, ServeCommit, ServeDiscard, ServeRevert, ServeRead
<1>3. \A op, i : Request(op, i).key = 0
  BY DEF Request
<1>4. ASSUME NEW r \in flight, Deliver(r) PROVE q \in flight \/ q.key = 0
  <2>1. \/ flight' = flight \ {r}
        \/ \E op, i : flight' = (flight \ {r}) \cup {Request(op, i)}
    BY <1>4 DEF Deliver, Read, ReadAndSend
  <2> QED BY <1>3, <2>1
<1>5. ASSUME NEW f \in Files, Upload(f) PROVE q \in flight \/ q.key = 0
  BY <1>5 DEF Upload, Send, Request
<1>6. (\E i \in Ids : View(i)) \/ Discard \/ Revert => q \in flight \/ q.key = 0
  BY <1>3 DEF View, Discard, Revert, Send
<1>7. CASE Confirm
  BY <1>7 DEF Confirm, Send, Request
<1>8. CASE Reopen
  <2>1. \A r \in flight : [r EXCEPT !.heard = FALSE].id = r.id /\ [r EXCEPT !.heard = FALSE].key = r.key
    BY DEF TypeInv, RequestType
  <2>2. q = Request("resume list", 0) \/ \E r \in flight : q = [r EXCEPT !.heard = FALSE]
    BY <1>8 DEF Reopen
  <2>3. ASSUME NEW r \in flight, q = [r EXCEPT !.heard = FALSE] PROVE q.id = r.id /\ q.key = r.key
    BY <2>1, <2>3
  <2>4. q = Request("resume list", 0) => q.key = 0
    BY <1>3
  <2> QED BY <2>2, <2>3, <2>4
<1>9. (\E s \in Sheets : PickSheet(s)) \/ (\E k \in Ticks : Tick(k)) \/ AskCommit \/ BackOut \/ AskRevert
      \/ CodesCome \/ ListCome \/ Other \/ UNCHANGED vars => UNCHANGED flight
  BY DEF PickSheet, Tick, AskCommit, BackOut, AskRevert, Toggle, CodesCome, ListCome, Other, vars
<1> QED BY <1>2, <1>4, <1>5, <1>6, <1>7, <1>8, <1>9 DEF Next, User

\* The key of the page goes on with its import, or is one nothing has yet.
LEMMA PageKey ==
  ASSUME TypeInv, ImportsInv, RequestsInv, FlightInv, PageInv, [Next]_vars
  PROVE  \/ page'.key = page.key /\ page'.shown = page.shown
         \/ page'.key = 0
         \/ /\ \A i \in Ids : imports'[i].key # page'.key
            /\ \A q \in flight' : q.key # page'.key
            /\ page'.key # 0
<1>0. page \in PageType
  BY DEF TypeInv
<1>1. ASSUME NEW r \in flight, Deliver(r), NEW id, NEW status, NEW full, page'.key = Show(page, id, status, full).key,
             page'.shown = Show(page, id, status, full).shown
      PROVE  \/ page'.key = page.key /\ page'.shown = page.shown
             \/ /\ \A i \in Ids : imports'[i].key # page'.key
                /\ \A q \in flight' : q.key # page'.key
                /\ page'.key # 0
  <2>1. CASE page.shown = id
    BY <1>0, <1>1, <2>1 DEF Show, PageType
  <2>2. CASE page.shown # id
    <3>1. page'.key = Uid
      BY <1>0, <1>1, <2>2 DEF Show, PageType
    <3>2. Uid # 0 /\ (\A i \in Ids : imports[i].key # Uid) /\ \A q \in flight : q.key # Uid
      BY UidIsFresh, BoundsAssumption DEF Keys
    <3>3. UNCHANGED imports
      BY <1>1 DEF Deliver
    <3>4. \A q \in flight' : q \in flight \/ q.key = 0
      <4>1. \/ flight' = flight \ {r}
            \/ \E op, i : flight' = (flight \ {r}) \cup {Request(op, i)}
        BY <1>1 DEF Deliver, Read, ReadAndSend
      <4>2. \A op, i : Request(op, i).key = 0
        BY DEF Request
      <4> QED BY <4>1, <4>2
    <3> QED BY <3>1, <3>2, <3>3, <3>4
  <2> QED BY <2>1, <2>2
<1>2. ASSUME NEW r \in flight, Deliver(r)
      PROVE  \/ page'.key = page.key /\ page'.shown = page.shown
             \/ page'.key = 0
             \/ \E id, status, full : /\ page'.key = Show(page, id, status, full).key
                                      /\ page'.shown = Show(page, id, status, full).shown
  <2>0. r \in RequestType /\ RequestFits(r) /\ r.status \in Statuses
    BY DEF TypeInv, RequestsInv, RequestType
  <2>1. CASE \E full \in BOOLEAN : r.op \in {"upload", "view"} /\ r.result \in {"ok", "known"}
             /\ page' = [Show(page, r.got, r.status, full) EXCEPT !.listing = TRUE]
    <3>1. PICK full \in BOOLEAN : page' = [Show(page, r.got, r.status, full) EXCEPT !.listing = TRUE]
      BY <2>1
    <3>2. Exists(r.got) /\ r.got \in Ids
      BY <2>0, <2>1 DEF RequestFits, Exists
    <3>3. Show(page, r.got, r.status, full) \in PageType
      BY <2>0, <3>2, ShowFits
    <3>4. /\ page'.key = Show(page, r.got, r.status, full).key
          /\ page'.shown = Show(page, r.got, r.status, full).shown
      BY <3>1, <3>3 DEF PageType
    <3> QED BY <3>4
  <2>2. CASE page' = Show(page, r.got, r.status, TRUE)
    BY <2>2
  <2>3. CASE page' = page \/ page' = Ended(page, r)
    BY <2>3, EndedFits
  <2>4. CASE page' = [Ended(page, r) EXCEPT !.thanked = r.id, !.listing = TRUE]
    <3>1. Ended(page, r) \in PageType /\ Ended(page, r).shown = page.shown /\ Ended(page, r).key = page.key
      BY EndedFits
    <3> QED BY <2>4, <3>1 DEF PageType
  <2>5. CASE page' = [page EXCEPT !.shown = 0, !.status = "none", !.full = FALSE, !.codes = FALSE,
                               !.picked = {}, !.ticked = {}, !.confirming = FALSE,
                               !.committing = FALSE, !.key = 0, !.thanked = 0, !.listing = TRUE]
    BY <1>0, <2>5 DEF PageType
  <2>6. CASE page' = [page EXCEPT !.reverting = 0, !.thanked = 0, !.listing = TRUE]
    BY <1>0, <2>6 DEF PageType
  <2>7. CASE page' = [page EXCEPT !.open = {}]
    BY <1>0, <2>7 DEF PageType
  <2> QED BY <1>2, <2>1, <2>2, <2>3, <2>4, <2>5, <2>6, <2>7 DEF Deliver, Read, ReadAndSend
<1>3. ASSUME User \/ CodesCome \/ ListCome
      PROVE  (page'.key = page.key /\ page'.shown = page.shown) \/ page'.key = 0
  <2>2. (\E f \in Files : Upload(f)) \/ (\E i \in Ids : View(i)) \/ Confirm \/ Discard \/ Revert
        => page'.key = page.key /\ page'.shown = page.shown
    BY <1>0 DEF Upload, View, Confirm, Discard, Revert, Send, PageType
  <2>3. AskCommit \/ BackOut \/ AskRevert => page'.key = page.key /\ page'.shown = page.shown
    BY <1>0 DEF AskCommit, BackOut, AskRevert, Toggle, PageType
  <2>4. (\E s \in Sheets : PickSheet(s)) \/ (\E k \in Ticks : Tick(k))
        => page'.key = page.key /\ page'.shown = page.shown
    BY <1>0 DEF PickSheet, Tick, Toggle, PageType
  <2>5. Reopen => page'.key = 0
    <3>1. Reopen => page' = Opened(With({"preview_ready"}))
      BY DEF Reopen
    <3>2. \A was : Opened(was).key = 0
      BY DEF Opened
    <3> QED BY <3>1, <3>2
  <2>6. CodesCome \/ ListCome => page'.key = page.key /\ page'.shown = page.shown
    BY <1>0 DEF CodesCome, ListCome, PageType
  <2> QED BY <1>3, <2>2, <2>3, <2>4, <2>5, <2>6 DEF User
<1>4. (\E r \in flight : Serve(r) \/ Lose(r)) \/ Other \/ UNCHANGED vars => UNCHANGED page
  BY DEF Serve, Lose, Other, vars
<1> QED BY <1>1, <1>2, <1>3, <1>4 DEF Next

LEMMA NextKeys ==
  ASSUME TypeInv, ImportsInv, RequestsInv, FlightInv, PageInv, KeysInv, [Next]_vars
  PROVE  KeysInv'
<1>0. ImportStep
  BY StepImports
<1>1. \A i \in Ids : imports'[i].key # 0 =>
        \/ imports'[i].key = imports[i].key
        \/ \E r \in flight : r.id = i /\ r.key = imports'[i].key
  BY <1>0, ImportsGoOn DEF CommitKey
<1>2. \A q \in flight' : q.key # 0 =>
        \/ \E r \in flight : q.id = r.id /\ q.key = r.key
        \/ Confirm /\ q.key = page.key /\ q.id = page.shown
  BY FlightSteps
<1>3. Confirm => UNCHANGED imports
  BY DEF Confirm, Send
<1>4. \A i \in Ids : imports'[i].key # 0 /\ Confirm => imports'[i].key = imports[i].key
  BY <1>3
<1>5. ASSUME NEW q \in flight', NEW i \in Ids, q.key # 0, imports'[i].key = q.key PROVE i = q.id
  BY <1>1, <1>2, <1>4, <1>5 DEF KeysInv
<1>6. ASSUME NEW q \in flight', NEW p \in flight', q.key # 0, q.key = p.key PROVE q.id = p.id
  BY <1>2, <1>6 DEF KeysInv
<1>7. ASSUME page'.key # 0, NEW i \in Ids, imports'[i].key = page'.key PROVE i = page'.shown
  BY <1>1, <1>7, PageKey DEF KeysInv
<1>8. ASSUME page'.key # 0, NEW q \in flight', q.key = page'.key PROVE q.id = page'.shown
  BY <1>2, <1>8, PageKey DEF KeysInv
<1> QED BY <1>5, <1>6, <1>7, <1>8 DEF KeysInv

----------------------------------------------------------------------------
(* How many requests are under way                                         *)

LEMMA ReplaceBound ==
  ASSUME NEW S, IsFiniteSet(S), NEW r \in S, NEW q
  PROVE  IsFiniteSet((S \ {r}) \cup {q}) /\ Cardinality((S \ {r}) \cup {q}) <= Cardinality(S)
<1>1. IsFiniteSet(S \ {r}) /\ Cardinality(S \ {r}) = Cardinality(S) - 1
  BY FS_RemoveElement
<1>2. /\ IsFiniteSet((S \ {r}) \cup {q})
      /\ \/ Cardinality((S \ {r}) \cup {q}) = Cardinality(S \ {r})
         \/ Cardinality((S \ {r}) \cup {q}) = Cardinality(S \ {r}) + 1
  BY <1>1, FS_AddElement
<1>3. Cardinality(S) \in Nat /\ Cardinality(S \ {r}) \in Nat
  BY <1>1, FS_CardinalityType
<1> QED BY <1>1, <1>2, <1>3

\* One request leaves, and one that writes no more than it did may come.
LEMMA ReplacedFlight ==
  ASSUME FlightInv, NEW r \in flight, NEW q, q.op \in Writes => r.op \in Writes,
         flight' \subseteq (flight \ {r}) \cup {q}
  PROVE  FlightInv'
<1>1. /\ IsFiniteSet((flight \ {r}) \cup {q})
      /\ Cardinality((flight \ {r}) \cup {q}) <= Cardinality(flight)
  BY ReplaceBound DEF FlightInv
<1>2. IsFiniteSet(flight') /\ Cardinality(flight') <= Cardinality((flight \ {r}) \cup {q})
  BY <1>1, FS_Subset
<1>3. IsFiniteSet(Sent(flight))
  BY FS_Subset DEF FlightInv, Sent
<1>4. IsFiniteSet(Sent(flight')) /\ Cardinality(Sent(flight')) <= Cardinality(Sent(flight))
  <2>1. CASE r \in Sent(flight)
    <3>1. Sent(flight') \subseteq (Sent(flight) \ {r}) \cup {q}
      BY DEF Sent
    <3>2. /\ IsFiniteSet((Sent(flight) \ {r}) \cup {q})
          /\ Cardinality((Sent(flight) \ {r}) \cup {q}) <= Cardinality(Sent(flight))
      BY <1>3, <2>1, ReplaceBound
    <3>3. IsFiniteSet(Sent(flight')) /\ Cardinality(Sent(flight')) <= Cardinality((Sent(flight) \ {r}) \cup {q})
      BY <3>1, <3>2, FS_Subset
    <3> QED BY <1>3, <3>2, <3>3, FS_CardinalityType
  <2>2. CASE r \notin Sent(flight)
    <3>1. Sent(flight') \subseteq Sent(flight)
      BY <2>2 DEF Sent
    <3> QED BY <1>3, <3>1, FS_Subset
  <2> QED BY <2>1, <2>2
<1>5. /\ Cardinality(flight) \in Nat /\ Cardinality(flight') \in Nat
      /\ Cardinality((flight \ {r}) \cup {q}) \in Nat
      /\ Cardinality(Sent(flight)) \in Nat /\ Cardinality(Sent(flight')) \in Nat
  BY <1>1, <1>2, <1>3, <1>4, FS_CardinalityType DEF FlightInv
<1>6. Sent(flight)' = Sent(flight')
  BY DEF Sent
<1> QED BY <1>1, <1>2, <1>4, <1>5, <1>6, BoundsAssumption DEF FlightInv

LEMMA NextFlight ==
  ASSUME TypeInv, FlightInv, [Next]_vars
  PROVE  FlightInv'
<1>1. ASSUME NEW r \in flight, NEW result, NEW got, NEW status, Answered(r, result, got, status)
      PROVE  FlightInv'
  <2> DEFINE answer == [r EXCEPT !.result = result, !.got = got, !.status = status]
  <2>1. answer.op = r.op
    BY DEF TypeInv, RequestType
  <2>2. flight' \subseteq (flight \ {r}) \cup {answer}
    BY <1>1 DEF Answered
  <2> HIDE DEF answer
  <2> QED BY <2>1, <2>2, ReplacedFlight
<1>2. ASSUME NEW r \in flight, Serve(r) \/ Lose(r) PROVE FlightInv'
  BY <1>1, <1>2 DEF Serve, Lose, Refuse, ServeUpload, ServeCommit, ServeDiscard, ServeRevert, ServeRead
<1>3. ASSUME NEW r \in flight, Deliver(r) PROVE FlightInv'
  <2>1. \/ flight' = flight \ {r}
        \/ \E i : flight' = (flight \ {r}) \cup {Request("resume", i)}
        \/ \E i : flight' = (flight \ {r}) \cup {Request("view", i)}
    BY <1>3 DEF Deliver, Read, ReadAndSend
  <2>2. \A i : Request("resume", i).op \notin Writes /\ Request("view", i).op \notin Writes
    BY DEF Request, Writes
  <2>3. flight' = flight \ {r} => flight' \subseteq (flight \ {r}) \cup {r}
    OBVIOUS
  <2> QED BY <2>1, <2>2, <2>3, ReplacedFlight
<1>4. ASSUME NEW q, Cardinality(flight) < MaxFlight, flight' = flight \cup {q} PROVE FlightInv'
  <2>1. IsFiniteSet(flight') /\ Cardinality(flight') <= MaxFlight
    BY <1>4, FS_AddElement, FS_CardinalityType, BoundsAssumption DEF FlightInv
  <2>2. IsFiniteSet(Sent(flight')) /\ Cardinality(Sent(flight')) <= Cardinality(flight')
    BY <2>1, FS_Subset DEF Sent
  <2>3. Cardinality(flight') \in Nat /\ Cardinality(Sent(flight')) \in Nat
    BY <2>1, <2>2, FS_CardinalityType
  <2>4. Sent(flight)' = Sent(flight')
    BY DEF Sent
  <2> QED BY <2>1, <2>2, <2>3, <2>4, BoundsAssumption DEF FlightInv
<1>5. (\E f \in Files : Upload(f)) \/ (\E i \in Ids : View(i)) \/ Confirm \/ Discard \/ Revert => FlightInv'
  BY <1>4 DEF Upload, View, Confirm, Discard, Revert, Send
<1>6. CASE Reopen
  <2> DEFINE going == {r \in flight : r.result = "sent" /\ r.op \in Writes}
             unheard == [r \in going |-> [r EXCEPT !.heard = FALSE]]
             left == {unheard[r] : r \in going}
             list == Request("resume list", 0)
  <2>1. flight' = left \cup {list}
    BY <1>6 DEF Reopen, Writes
  <2>2. IsFiniteSet(going) /\ Cardinality(going) <= Cardinality(Sent(flight)) /\ IsFiniteSet(Sent(flight))
    <3>1. IsFiniteSet(Sent(flight))
      BY FS_Subset DEF FlightInv, Sent
    <3>2. going \subseteq Sent(flight)
      BY DEF Sent
    <3> HIDE DEF going
    <3> QED BY <3>1, <3>2, FS_Subset
  <2>3. IsFiniteSet(left) /\ Cardinality(left) <= Cardinality(going)
    <3>1. unheard = [r \in going |-> unheard[r]]
      OBVIOUS
    <3> HIDE DEF going, unheard
    <3> QED BY <2>2, <3>1, ImageBound
  <2>4. list.op \notin Writes
    BY DEF Request, Writes
  <2> HIDE DEF left, list, going
  <2>5. Sent(flight') \subseteq left
    BY <2>1, <2>4 DEF Sent
  <2>6. IsFiniteSet(flight') /\ Cardinality(flight') <= Cardinality(left) + 1
    <3>1. /\ IsFiniteSet(left \cup {list})
          /\ \/ Cardinality(left \cup {list}) = Cardinality(left)
             \/ Cardinality(left \cup {list}) = Cardinality(left) + 1
      BY <2>3, FS_AddElement
    <3>2. Cardinality(left) \in Nat
      BY <2>3, FS_CardinalityType
    <3> QED BY <2>1, <3>1, <3>2
  <2>7. IsFiniteSet(Sent(flight')) /\ Cardinality(Sent(flight')) <= Cardinality(left)
    BY <2>3, <2>5, FS_Subset
  <2>8. /\ Cardinality(left) \in Nat /\ Cardinality(flight') \in Nat /\ Cardinality(Sent(flight')) \in Nat
        /\ Cardinality(going) \in Nat /\ Cardinality(Sent(flight)) \in Nat
    BY <2>2, <2>3, <2>6, <2>7, FS_CardinalityType
  <2>9. Sent(flight)' = Sent(flight')
    BY DEF Sent
  <2> QED BY <2>2, <2>3, <2>6, <2>7, <2>8, <2>9, BoundsAssumption DEF FlightInv
<1>7. (\E s \in Sheets : PickSheet(s)) \/ (\E k \in Ticks : Tick(k)) \/ AskCommit \/ BackOut \/ AskRevert
      \/ CodesCome \/ ListCome \/ Other \/ UNCHANGED vars => UNCHANGED flight
  BY DEF PickSheet, Tick, AskCommit, BackOut, AskRevert, Toggle, CodesCome, ListCome, Other, vars
<1>8. UNCHANGED flight => FlightInv'
  BY DEF FlightInv, Sent
<1> QED BY <1>2, <1>3, <1>5, <1>6, <1>7, <1>8 DEF Next, User

----------------------------------------------------------------------------
(* Where a page that is opened again lands                                 *)

\* An import that the newest ones have pushed off the list does not come back.
LEMMA ListedShrinks ==
  ASSUME TypeInv, ImportsInv, ImportStep, NEW i \in Ids, Exists(i), i \in Listed(ResumeLimit)'
  PROVE  i \in Listed(ResumeLimit)
<1>1. Newer(i) \subseteq Newer(i)'
  BY ImportsGoOn DEF Newer, Exists
<1>2. IsFiniteSet(Newer(i)')
  <2>1. IsFiniteSet(Ids)
    BY BoundsAssumption, FS_Interval DEF Ids
  <2>2. Newer(i)' \subseteq Ids
    BY DEF Newer
  <2> QED BY <2>1, <2>2, FS_Subset
<1>3. Cardinality(Newer(i)) <= Cardinality(Newer(i)')
  BY <1>1, <1>2, FS_Subset
<1>4. Cardinality(Newer(i)) \in Nat /\ Cardinality(Newer(i)') \in Nat
  BY <1>1, <1>2, FS_Subset, FS_CardinalityType
<1>5. Cardinality(Newer(i)') < ResumeLimit
  BY DEF Listed
<1>6. Cardinality(Newer(i)) < ResumeLimit
  BY <1>3, <1>4, <1>5, LimitsAssumption
<1> QED BY <1>6 DEF Listed, Exists

LEMMA DeliverOpen ==
  ASSUME TypeInv, ImportsInv, RequestsInv, FlightInv, PageInv, NEW r \in flight, Deliver(r)
  PROVE  page'.open = page.open \/ page'.open = {}
<1>0. page \in PageType /\ r \in RequestType /\ RequestFits(r) /\ r.status \in Statuses
  BY DEF TypeInv, RequestsInv, RequestType
<1>1. \A id, status, full : Show(page, id, status, full).open = page.open
  BY <1>0 DEF Show, PageType
<1>2. Ended(page, r).open = page.open /\ Ended(page, r) \in PageType
  BY EndedFits
<1>3. CASE \E full \in BOOLEAN : r.op \in {"upload", "view"} /\ r.result \in {"ok", "known"}
           /\ page' = [Show(page, r.got, r.status, full) EXCEPT !.listing = TRUE]
  <2>1. PICK full \in BOOLEAN : page' = [Show(page, r.got, r.status, full) EXCEPT !.listing = TRUE]
    BY <1>3
  <2>2. Exists(r.got) /\ r.got \in Ids
    BY <1>0, <1>3 DEF RequestFits, Exists
  <2>3. Show(page, r.got, r.status, full) \in PageType
    BY <1>0, <2>2, ShowFits
  <2> QED BY <1>1, <2>1, <2>3 DEF PageType
<1>4. CASE page' = [Ended(page, r) EXCEPT !.thanked = r.id, !.listing = TRUE]
  BY <1>2, <1>4 DEF PageType
<1>5. CASE page' = page \/ page' = Ended(page, r) \/ page' = Show(page, r.got, r.status, TRUE)
  BY <1>1, <1>2, <1>5
<1>6. CASE page' = [page EXCEPT !.shown = 0, !.status = "none", !.full = FALSE, !.codes = FALSE,
                             !.picked = {}, !.ticked = {}, !.confirming = FALSE,
                             !.committing = FALSE, !.key = 0, !.thanked = 0, !.listing = TRUE]
  BY <1>0, <1>6 DEF PageType
<1>7. CASE page' = [page EXCEPT !.reverting = 0, !.thanked = 0, !.listing = TRUE]
           \/ page' = [page EXCEPT !.open = {}]
  BY <1>0, <1>7 DEF PageType
<1> QED BY <1>3, <1>4, <1>5, <1>6, <1>7 DEF Deliver, Read, ReadAndSend

LEMMA NextResume ==
  ASSUME TypeInv, ImportsInv, RequestsInv, FlightInv, PageInv, ResumeInv, [Next]_vars
  PROVE  ResumeInv'
<1>0. page \in PageType /\ PageFits(page) /\ ImportStep
  BY StepImports DEF TypeInv, PageInv
<1>1. page'.open = page.open /\ Waiting' => Waiting
  <2>1. \A i \in page.open : i \in Ids /\ Exists(i)
    BY <1>0 DEF PageFits, PageType
  <2>2. \A i \in Ids : Exists(i) /\ imports'[i].status = "preview_ready" => imports[i].status = "preview_ready"
    BY <1>0, ImportsGoOn
  <2>3. Listed(ResumeLimit)' \cap page.open \subseteq Listed(ResumeLimit)
    BY <1>0, <2>1, ListedShrinks
  <2> QED BY <2>1, <2>2, <2>3 DEF Waiting, With
<1>2. ASSUME NEW r \in flight, NEW result, NEW got, NEW status, Answered(r, result, got, status),
             UNCHANGED page, Waiting => (r.heard /\ result \in {"ok", "known"} => got # 0)
      PROVE  ResumeInv'
  <2> DEFINE answer == [r EXCEPT !.result = result, !.got = got, !.status = status]
  <2>1. answer.op = r.op /\ answer.heard = r.heard /\ answer.result = result /\ answer.got = got
    BY DEF TypeInv, RequestType
  <2>2. flight' = (flight \ {r}) \cup (IF r.heard THEN {answer} ELSE {})
    BY <1>2 DEF Answered
  <2> HIDE DEF answer
  <2> SUFFICES ASSUME Waiting' PROVE /\ \A q \in flight' : q.heard => OnTheWay(q)
                                     /\ page'.shown = 0 => \E q \in flight' : q.heard
    BY DEF ResumeInv, OnTheWay
  <2>3. Waiting /\ \A q \in flight : q.heard => OnTheWay(q)
    BY <1>1, <1>2 DEF ResumeInv
  <2>4. r.heard => OnTheWay(answer)
    BY <1>2, <2>1, <2>3 DEF OnTheWay
  <2>5. page.shown = 0 => \E q \in flight : q.heard
    BY <2>3 DEF ResumeInv
  <2> QED BY <1>2, <2>1, <2>2, <2>3, <2>4, <2>5
<1>3. ASSUME NEW r \in flight, Serve(r) \/ Lose(r) PROVE ResumeInv'
  <2>0. r \in RequestType /\ RequestFits(r)
    BY DEF TypeInv, RequestsInv
  <2>1. UNCHANGED page
    BY <1>3 DEF Serve, Lose
  <2>2. CASE Waiting /\ r.heard
    <3>1. r.op \in {"resume list", "resume"}
      BY <2>2 DEF ResumeInv, OnTheWay
    <3>2. CASE Lose(r)
      BY <1>2, <2>1, <3>2 DEF Lose, Refuse
    <3>3. CASE Serve(r) /\ r.op = "resume"
      <4>1. Answered(r, "ok", r.id, imports[r.id].status)
        BY <3>3 DEF Serve, ServeUpload, ServeCommit, ServeDiscard, ServeRevert, ServeRead
      <4>2. r.id # 0
        BY <2>0, <3>3, UsableIs DEF RequestFits, AboutOne
      <4> QED BY <1>2, <2>1, <4>1, <4>2
    <3>4. CASE Serve(r) /\ r.op = "resume list"
      <4> DEFINE S == With(Resumable) \cap Listed(ResumeLimit)
      <4>1. Answered(r, "ok", Newest(S), "none")
        BY <3>4 DEF Serve, ServeUpload, ServeCommit, ServeDiscard, ServeRevert, ServeRead
      <4>2. S # {} /\ S \subseteq Ids
        BY <2>2, WithIds DEF Waiting, Resumable
      <4> HIDE DEF S
      <4>3. Newest(S) # 0
        <5>1. Newest(S) \in Ids
          BY <4>2, NewestIs
        <5>2. \A i \in Ids : i # 0
          BY BoundsAssumption DEF Ids
        <5> QED BY <5>1, <5>2
      <4> QED BY <1>2, <2>1, <4>1, <4>3
    <3> QED BY <1>3, <3>1, <3>2, <3>3, <3>4
  <2>3. CASE ~(Waiting /\ r.heard)
    BY <1>2, <1>3, <2>1, <2>3 DEF Serve, Lose, Refuse, ServeUpload, ServeCommit, ServeDiscard,
                                  ServeRevert, ServeRead
  <2> QED BY <2>2, <2>3
<1>4. ASSUME NEW r \in flight, Deliver(r) PROVE ResumeInv'
  <2>0. r \in RequestType /\ RequestFits(r) /\ r.heard /\ UNCHANGED imports
    BY <1>4 DEF TypeInv, RequestsInv, RequestFits, Deliver, RequestType
  <2>1. page'.open = page.open \/ page'.open = {}
    BY <1>4, DeliverOpen
  <2>2. CASE ~Waiting
    <3>1. With({"preview_ready"})' = With({"preview_ready"}) /\ Listed(ResumeLimit)' = Listed(ResumeLimit)
      BY <2>0 DEF With, Listed, Newer
    <3>2. ~Waiting'
      BY <2>1, <2>2, <3>1 DEF Waiting
    <3> QED BY <3>2 DEF ResumeInv
  <2>3. CASE Waiting
    <3>1. OnTheWay(r) /\ \A q \in flight : q.heard => OnTheWay(q)
      BY <2>0, <2>3 DEF ResumeInv
    <3>2. CASE r.op = "resume" /\ r.result = "ok"
      <4>1. Exists(r.got) /\ r.got \in Ids /\ r.got # 0 /\ r.status \in Statuses
        BY <2>0, <3>2, UsableIs DEF RequestFits, RequestType
      <4>2. flight' = flight \ {r} /\ page' = Show(page, r.got, r.status, TRUE)
        BY <1>4, <3>2 DEF Deliver, Read
      <4>3. page'.shown # 0
        BY <4>1, <4>2, ShowFits
      <4> QED BY <3>1, <4>2, <4>3 DEF ResumeInv, OnTheWay
    <3>3. CASE r.op = "resume list" /\ r.result = "ok"
      <4>1. r.got # 0
        BY <3>1, <3>3 DEF OnTheWay
      <4>2. flight' = (flight \ {r}) \cup {Request("resume", r.got)}
        BY <1>4, <3>3, <4>1 DEF Deliver, ReadAndSend
      <4>3. Request("resume", r.got).heard = TRUE /\ OnTheWay(Request("resume", r.got))
        BY DEF Request, OnTheWay
      <4> QED BY <3>1, <4>2, <4>3 DEF ResumeInv, OnTheWay
    <3>4. CASE r.result \notin {"ok"}
      <4>1. page'.open = {}
        BY <1>0, <1>4, <3>1, <3>4 DEF Deliver, Read, OnTheWay, PageType
      <4> QED BY <4>1 DEF ResumeInv, Waiting
    <3> QED BY <3>1, <3>2, <3>3, <3>4 DEF OnTheWay
  <2> QED BY <2>2, <2>3
<1>5. page'.open = {} => ResumeInv'
  BY DEF ResumeInv, Waiting
<1>6. CASE Reopen
  <2>1. page' = Opened(With({"preview_ready"})) /\ Request("resume list", 0) \in flight'
    BY <1>6 DEF Reopen
  <2>2. Request("resume list", 0).heard = TRUE /\ OnTheWay(Request("resume list", 0))
    BY DEF Request, OnTheWay
  <2>3. \A q \in flight' : q = Request("resume list", 0) \/ \E r \in flight : q = [r EXCEPT !.heard = FALSE]
    BY <1>6 DEF Reopen
  <2>4. \A r \in flight : [r EXCEPT !.heard = FALSE].heard = FALSE
    BY DEF TypeInv, RequestType
  <2>5. \A q \in flight' : q.heard => q = Request("resume list", 0)
    BY <2>3, <2>4
  <2> QED BY <2>1, <2>2, <2>5 DEF ResumeInv, OnTheWay
<1>7. (\E f \in Files : Upload(f)) \/ (\E i \in Ids : View(i)) \/ Confirm \/ Discard \/ Revert => page'.open = {}
  BY <1>0 DEF Upload, View, Confirm, Discard, Revert, Send, PageType
<1>8. (\E s \in Sheets : PickSheet(s)) \/ (\E k \in Ticks : Tick(k)) => page'.open = {}
  BY <1>0 DEF PickSheet, Tick, Toggle, PageType
<1>9. AskCommit \/ BackOut \/ AskRevert => page'.open = {}
  BY <1>0 DEF AskCommit, BackOut, AskRevert, Toggle, PageType
<1>10. ASSUME page'.open = page.open, page'.shown = page.shown, UNCHANGED flight PROVE ResumeInv'
  BY <1>1, <1>10 DEF ResumeInv, OnTheWay
<1>11. CodesCome \/ ListCome => ResumeInv'
  <2>1. CodesCome \/ ListCome => page'.open = page.open /\ page'.shown = page.shown /\ UNCHANGED flight
    BY <1>0 DEF CodesCome, ListCome, PageType
  <2> QED BY <1>10, <2>1
<1>12. Other \/ UNCHANGED vars => ResumeInv'
  BY <1>10 DEF Other, vars
<1> QED BY <1>3, <1>4, <1>5, <1>6, <1>7, <1>8, <1>9, <1>11, <1>12 DEF Next, User

----------------------------------------------------------------------------
(* The invariant, and what it says                                         *)

IInv ==
  /\ TypeInv /\ ImportsInv /\ CommitsSound /\ RequestsInv
  /\ PageInv /\ KeysInv /\ FlightInv /\ ResumeInv

LEMMA FirstIds ==
  /\ 1 \in Ids => 1 \in 0 .. MaxImports
  /\ 2 \in Ids => 2 \in 0 .. MaxImports /\ 1 \in Ids
  /\ \A i \in Ids : ~(i <= 0) /\ (i <= 1 <=> i = 1) /\ (i <= 2 <=> i = 1 \/ i = 2)
<1>1. \A i \in Ids : i \in Nat /\ 1 <= i /\ i <= MaxImports
  BY BoundsAssumption DEF Ids
<1>2. 1 \in Ids => 1 \in 0 .. MaxImports
  BY <1>1, BoundsAssumption
<1>3. 2 \in Ids => 2 \in 0 .. MaxImports /\ 1 \in Ids
  BY <1>1, BoundsAssumption DEF Ids
<1>4. \A i \in Ids : ~(i <= 0) /\ (i <= 1 <=> i = 1) /\ (i <= 2 <=> i = 1 \/ i = 2)
  BY <1>1
<1> QED BY <1>2, <1>3, <1>4

LEMMA InitHolds == Init => IInv
<1>0. /\ 1 \in Keys /\ 0 \in 0 .. MaxImports /\ 1 <= MaxFlight + 1 /\ 0 <= MaxFlight
      /\ \A i \in Ids : 1 \in 0 .. MaxImports /\ ~(i <= 0) /\ (i <= 1 <=> i = 1)
  BY BoundsAssumption DEF Keys, Ids
<1> DEFINE preview(f) == [NoImport EXCEPT !.file = f, !.status = "preview_ready"]
           discarded(f) == [NoImport EXCEPT !.file = f, !.status = "discarded"]
<1> HIDE DEF preview, discarded
<1> SUFFICES ASSUME NEW first \in {"none", "preview_ready", "committed"}, NEW f \in Files,
                    NEW later \in Files \cup {NoFile},
                    later # NoFile => first # "none" /\ later # f,
                    imports = [i \in Ids |->
                      IF i = 1 /\ first = "committed" THEN Stored(preview(f), 1, Usable(f), Ticks)
                      ELSE IF i = 1 /\ first = "preview_ready" THEN preview(f)
                      ELSE IF i = 2 /\ later # NoFile THEN discarded(later)
                      ELSE NoImport],
                    page = Opened(With({"preview_ready"})), flight = {Request("resume list", 0)}
             PROVE  IInv
  BY DEF Init, preview, discarded
<1> DEFINE list == Request("resume list", 0)
<1>1. /\ list \in RequestType /\ RequestFits(list) /\ list.op = "resume list" /\ list.key = 0
      /\ list.heard = TRUE /\ list.result = "sent" /\ list.op \notin Writes
  BY RequestIs DEF Request, Writes
<1> HIDE DEF list
<1>2. /\ Usable(f) \in SUBSET Sheets /\ Needs[f] \subseteq Ticks
      /\ Taken(f, Usable(f)) \in SUBSET Sheets /\ Taken(f, Usable(f)) \cap Blocked[f] = {}
  BY FilesAssumption DEF Usable, Sheets, Taken
<1>3. NoImport \in ImportType /\ NoImport.status = "none"
  BY <1>0 DEF NoImport, ImportType, Statuses
<1> DEFINE imp == preview(f)
<1>4. imp \in ImportType /\ imp.status = "preview_ready" /\ imp.file = f
  BY <1>0 DEF NoImport, ImportType, Statuses, preview
<1> DEFINE com == Stored(imp, 1, Usable(f), Ticks)
<1>5. /\ com \in ImportType /\ com.status = "committed" /\ com.file = f
      /\ com.took \cap Blocked[f] = {} /\ Needs[f] \subseteq com.ticks
  BY <1>2, <1>0, <1>4 DEF Stored, ImportType, Statuses
<1> DEFINE gone == discarded(later)
<1>6a. /\ gone \in ImportType /\ gone.status = "discarded"
       /\ later # NoFile => gone.file \in Files
  BY <1>0 DEF NoImport, ImportType, Statuses, discarded
<1>6. imports = [i \in Ids |-> IF i = 1 /\ first = "committed" THEN com
                               ELSE IF i = 1 /\ first = "preview_ready" THEN imp
                               ELSE IF i = 2 /\ later # NoFile THEN gone
                               ELSE NoImport]
  OBVIOUS
<1> HIDE DEF com, imp, gone
<1>7. imports \in [Ids -> ImportType]
  BY <1>3, <1>4, <1>5, <1>6, <1>6a
<1>8. ImportsInv
  <2>1. \A i \in Ids : imports[i].status # "none" => FileOf(i) \in Files
    BY <1>3, <1>4, <1>5, <1>6, <1>6a DEF FileOf
  <2>2. \A i \in Ids : imports[i].status # "none"
                       <=> (i = 1 /\ first # "none") \/ (i = 2 /\ later # NoFile)
    BY <1>3, <1>4, <1>5, <1>6, <1>6a
  <2>4. CASE first = "none" \/ 1 \notin Ids
    <3>1. \A i \in Ids : imports[i].status # "none" <=> i <= 0
      BY <2>2, FirstIds, <2>4
    <3> QED BY <1>0, <2>1, <3>1 DEF ImportsInv
  <2>5. CASE first # "none" /\ 1 \in Ids /\ ~(later # NoFile /\ 2 \in Ids)
    <3>1. \A i \in Ids : imports[i].status # "none" <=> i <= 1
      BY <2>2, FirstIds, <2>5
    <3> QED BY <2>1, FirstIds, <2>5, <3>1 DEF ImportsInv
  <2>6. CASE first # "none" /\ later # NoFile /\ 2 \in Ids
    <3>1. \A i \in Ids : imports[i].status # "none" <=> i <= 2
      BY <2>2, FirstIds, <2>6
    <3> QED BY <2>1, FirstIds, <2>6, <3>1 DEF ImportsInv
  <2> QED BY FirstIds, <2>4, <2>5, <2>6
<1>9. CommitsSound
  BY <1>3, <1>4, <1>5, <1>6, <1>6a DEF CommitsSound, With, FileOf
<1>10. page \in PageType /\ PageInv
  <2>1. PICK was \in SUBSET Ids : was = With({"preview_ready"})
    BY WithIds
  <2>2. \A i \in was : Exists(i)
    BY <2>1 DEF With, Exists
  <2> QED BY <2>1, <2>2 DEF Opened, PageType, PageInv, PageFits, Statuses
<1>11. page.key = 0
  BY DEF Opened
<1>12. flight = {list}
  BY DEF list
<1>13. FlightInv
  <2>1. IsFiniteSet(flight) /\ Cardinality(flight) = 1
    BY <1>12, FS_Singleton
  <2>2. Sent(flight) = {}
    BY <1>1, <1>12 DEF Sent
  <2>3. Cardinality(Sent(flight)) = 0
    BY <2>2, FS_EmptySet
  <2> QED BY <1>0, <2>1, <2>3 DEF FlightInv
<1>14. KeysInv
  BY <1>1, <1>11, <1>12 DEF KeysInv
<1>15. ResumeInv
  BY <1>1, <1>12 DEF ResumeInv, OnTheWay
<1> QED BY <1>1, <1>7, <1>8, <1>9, <1>10, <1>12, <1>13, <1>14, <1>15 DEF IInv, TypeInv, RequestsInv

LEMMA NextHolds == IInv /\ [Next]_vars => IInv'
<1> SUFFICES ASSUME IInv, [Next]_vars PROVE IInv'
  OBVIOUS
<1>1. TypeInv /\ ImportsInv /\ CommitsSound /\ RequestsInv /\ PageInv /\ KeysInv /\ FlightInv /\ ResumeInv
  BY DEF IInv
<1>2. ImportStep
  BY <1>1, StepImports
<1>3. imports' \in [Ids -> ImportType] /\ ImportsInv' /\ CommitsSound'
  BY <1>1, <1>2, NextImports, NextSound
<1>4. page' \in PageType /\ PageInv'
  BY <1>1, NextPage
<1>5. flight' \subseteq RequestType /\ RequestsInv'
  BY <1>1, NextRequests
<1>6. KeysInv' /\ FlightInv' /\ ResumeInv'
  BY <1>1, NextKeys, NextFlight, NextResume
<1> QED BY <1>3, <1>4, <1>5, <1>6 DEF IInv, TypeInv

LEMMA Invariance == Spec => []IInv
BY InitHolds, NextHolds, PTL DEF Spec

\* Types, and the bound on the requests under way: no answer, late or lost,
\* makes the page send more than it may.
THEOREM TypeCorrect == Spec => []TypeOK
<1>1. IInv => TypeOK
  BY DEF IInv, TypeInv, FlightInv, TypeOK, ImportType, PageType, Statuses
<1> QED BY <1>1, Invariance, PTL

\* However many pages and requests interleave, no sheet with errors is committed
\* and nothing without the ticks its file calls for (commit_import's refusals).
THEOREM CommitsAreSound == Spec => []CommitsSound
<1>1. IInv => CommitsSound
  BY DEF IInv
<1> QED BY <1>1, Invariance, PTL

\* Whatever answers come late, a commit names sheets of the import it is for:
\* Preview is keyed by the import it shows.
THEOREM CommitsFitTheirImport == Spec => []RequestsFit
<1>1. IInv => RequestsFit
  BY DEF IInv, RequestsInv, RequestFits, RequestsFit
<1> QED BY <1>1, Invariance, PTL

\* The notice "Committed" is of an import that was: an idempotency key never
\* replays the commit of another one.
THEOREM ThanksAreTrue == Spec => []ThanksTrue
<1>1. IInv => ThanksTrue
  <2>1. TypeInv /\ PageFits(page) => ThanksTrue
    BY DEF TypeInv, PageFits, PageType, ThanksTrue, With, Done
  <2> QED BY <2>1 DEF IInv, PageInv
<1> QED BY <1>1, Invariance, PTL

\* A page that is opened again lands on the preview that still waits.
THEOREM PagesResume == Spec => []ResumesOpenPreview
<1>1. IInv => ResumesOpenPreview
  BY DEF IInv, ResumeInv, Waiting, ResumesOpenPreview
<1> QED BY <1>1, Invariance, PTL
=============================================================================
