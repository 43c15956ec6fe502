------------------------- MODULE ProvisionerProofs --------------------------
(***************************************************************************)
(* What Provisioner guarantees for any documents, revisions, times and     *)
(* number of requests and redeliveries.                                    *)
(***************************************************************************)
EXTENDS Provisioner, TLAPS

CreateSteps == {"group", "encryption", "network", "access", "create", "active",
                "drop", "index", "embed", "bulk", "sops"}
DeleteSteps == {"find", "delete", "gone", "delete access", "delete network",
                "delete encryption", "delete group"}

(* Where the handler is, which request it handles, and that it has not      *)
(* answered yet.                                                            *)
PlaceInv ==
    /\ pc \in {"idle", "late"} \cup CreateSteps \cup DeleteSteps
    /\ pc \in CreateSteps => request.type \in {"Create", "Update"}
    /\ pc \in DeleteSteps => request.type = "Delete"
    /\ pc = "late" => request.type \in {"Create", "Update", "Delete"}
    /\ pc # "idle" => answer = "none" /\ request.revision \in Revisions

Written(policy) == policy # 0 /\ (swallowed \/ policy = request.revision)

(* What each step of a Create has behind it. *)
StageInv ==
    /\ pc \in CreateSteps \ {"group"} /\ generation = "NEXTGEN" => group
    /\ pc \in CreateSteps \ {"group", "encryption"} => encryption
    /\ pc \in CreateSteps \ {"group", "encryption", "network"} => Written(network)
    /\ pc \in CreateSteps \ {"group", "encryption", "network", "access"} =>
          Written(access)
    /\ pc \in {"drop", "index", "embed", "bulk", "sops"} => collection = "active"
    /\ SuccessIsUsable

(* The seeding starts from an index that is new and empty. *)
SeedInv ==
    /\ pc = "index" => seeds = Nothing /\ index # "mapped"
    /\ pc \in {"embed", "bulk"} => seeds = Nothing /\ index = "mapped"
    /\ seeded => /\ pc \in {"sops", "idle", "late"} /\ collection = "active"
                 /\ index = "mapped" /\ \A d \in Docs : seeds[d] = 1
    /\ \A d \in Docs : seeds[d] \in {0, 1}

(* What is gone at each step of a Delete, if all went well. *)
GoneInv ==
    ~fault /\ ~expired =>
        /\ pc \in {"delete access", "delete network", "delete encryption",
                   "delete group"} => collection = "absent"
        /\ pc \in {"delete network", "delete encryption", "delete group"} =>
              access = 0
        /\ pc \in {"delete encryption", "delete group"} => network = 0
        /\ pc = "delete group" => ~encryption
        /\ CleanDelete

IInv == TypeOK /\ PlaceInv /\ StageInv /\ SeedInv /\ GoneInv /\ FailsForAReason

-----------------------------------------------------------------------------
LEMMA InitInv == Init => IInv
<1> SUFFICES ASSUME Init PROVE IInv
  OBVIOUS
<1>1. TypeOK
  <2>1. Nothing \in [Docs -> Nat]
    BY DEF Nothing
  <2>2. 0 \in 0..MaxRequests /\ 0 \in 0..MaxAgain
    BY BoundsAssumption
  <2> QED
    BY <2>1, <2>2 DEF Init, TypeOK
<1>2. PlaceInv /\ StageInv /\ GoneInv /\ FailsForAReason
  BY DEF Init, PlaceInv, StageInv, GoneInv, SuccessIsUsable, CleanDelete,
         FailsForAReason, Provisioned, CreateSteps, DeleteSteps
<1>3. SeedInv
  BY DEF Init, SeedInv, Nothing
<1> QED
  BY <1>1, <1>2, <1>3 DEF IInv

LEMMA Sums == \A a, b \in Nat : a + b \in Nat
  OBVIOUS

(* The times. *)
LEMMA AtFacts ==
    ASSUME TypeOK, NEW l, NEW D, D \subseteq Nat, At(l, D)
    PROVE  pc = l /\ clock' \in Nat
  BY DEF TypeOK, At

LEMMA TryAgainFacts ==
    ASSUME TypeOK, NEW d \in Nat, TryAgain(d)
    PROVE  /\ clock' \in Nat /\ pc' \in {"drop", "sops"}
           /\ stack' = stack /\ answer' = answer
  BY BoundsAssumption, TimesAssumption DEF TypeOK, TryAgain, Goto

LEMMA TimeNext == TypeOK /\ [Next]_vars => clock' \in Nat /\ deadline' \in Nat
<1> SUFFICES ASSUME TypeOK, [Next]_vars PROVE clock' \in Nat /\ deadline' \in Nat
  OBVIOUS
<1> USE TimesAssumption, BoundsAssumption, AtFacts
<1>1. clock \in Nat /\ deadline \in Nat
  BY DEF TypeOK
<1>2. CASE EnsureGroup
  BY <1>1, <1>2 DEF EnsureGroup
<1>3. CASE EnsureEncryptionPolicy
  BY <1>1, <1>3 DEF EnsureEncryptionPolicy
<1>4. CASE EnsureNetworkPolicy
  BY <1>1, <1>4 DEF EnsureNetworkPolicy
<1>5. CASE EnsureDataAccessPolicy
  BY <1>1, <1>5 DEF EnsureDataAccessPolicy
<1>6. CASE CreateCollection
  <2>1. At("create", Slow)
    BY <1>6 DEF CreateCollection
  <2>2. clock' \in Nat
    BY <2>1
  <2>3. deadline' = clock' + ActiveWait
    BY <1>6 DEF CreateCollection
  <2> QED
    BY <2>2, <2>3, Sums
<1>7. CASE AwaitActive
  BY <1>1, <1>7 DEF AwaitActive
<1>8. CASE AwaitExpires
  BY <1>1, <1>8 DEF AwaitExpires
<1>9. CASE DropIndex
  BY <1>1, <1>9, TryAgainFacts DEF DropIndex
<1>10. CASE CreateIndex
  BY <1>1, <1>10, TryAgainFacts DEF CreateIndex
<1>11. CASE EmbedDocuments
  BY <1>1, <1>11 DEF EmbedDocuments
<1>12. CASE BulkIndex
  BY <1>1, <1>12 DEF BulkIndex
<1>13. CASE StoreSopPdfs
  BY <1>1, <1>13 DEF StoreSopPdfs
<1>14. CASE FindCollection
  BY <1>1, <1>14 DEF FindCollection
<1>15. CASE DeleteCollection
  <2>1. At("delete", Fast)
    BY <1>15 DEF DeleteCollection
  <2>2. clock' \in Nat
    BY <2>1
  <2>3. deadline' = clock' + ActiveWait
    BY <1>15 DEF DeleteCollection
  <2> QED
    BY <2>2, <2>3, Sums
<1>16. CASE AwaitGone
  <2>1. PICK d \in Fast : clock' = clock + d \/ clock' = clock + d + 1
    BY <1>16 DEF AwaitGone
  <2>2. deadline' = deadline
    BY <1>16 DEF AwaitGone
  <2> QED
    BY <1>1, <2>1, <2>2
<1>17. CASE GoneExpires
  BY <1>1, <1>17 DEF GoneExpires
<1>18. CASE DeleteAccessPolicy \/ DeleteNetworkPolicy
  BY <1>1, <1>18 DEF DeleteAccessPolicy, DeleteNetworkPolicy
<1>19. CASE DeleteEncryptionPolicy \/ DeleteGroup
  BY <1>1, <1>19 DEF DeleteEncryptionPolicy, DeleteGroup
<1>20. CASE Killed
  BY <1>1, <1>20 DEF Killed
<1>21. CASE CollectionSettles \/ Upload \/ UNCHANGED vars
  BY <1>1, <1>21 DEF CollectionSettles, Upload, vars
<1>22. CASE \E type \in {"Create", "Update", "Delete"}, r \in Revisions :
               Request(type, r)
  BY <1>22 DEF Request
<1> QED
  BY <1>2, <1>3, <1>4, <1>5, <1>6, <1>7, <1>8, <1>9, <1>10, <1>11, <1>12, <1>13,
     <1>14, <1>15, <1>16, <1>17, <1>18, <1>19, <1>20, <1>21, <1>22
  DEF Next, Provision, Teardown, Idle

-----------------------------------------------------------------------------
Flags ==
    /\ group \in BOOLEAN /\ encryption \in BOOLEAN /\ seeded \in BOOLEAN
    /\ fault \in BOOLEAN /\ expired \in BOOLEAN /\ swallowed \in BOOLEAN

LEMMA FlagsNext == Flags /\ [Next]_vars => Flags'
<1> SUFFICES ASSUME Flags, [Next]_vars PROVE Flags'
  OBVIOUS
<1> USE DEF Flags
<1>1. CASE EnsureGroup
  BY <1>1 DEF EnsureGroup, Raises
<1>2. CASE EnsureEncryptionPolicy
  BY <1>2 DEF EnsureEncryptionPolicy, Raises
<1>3. CASE EnsureNetworkPolicy
  BY <1>3 DEF EnsureNetworkPolicy, Ensured, Raises, ghost
<1>4. CASE EnsureDataAccessPolicy
  BY <1>4 DEF EnsureDataAccessPolicy, Ensured, Raises, ghost
<1>5. CASE CreateCollection
  BY <1>5 DEF CreateCollection, Raises
<1>6. CASE AwaitActive
  BY <1>6 DEF AwaitActive, Raises, control
<1>7. CASE AwaitExpires
  BY <1>7 DEF AwaitExpires, control
<1>8. CASE DropIndex
  BY <1>8 DEF DropIndex, control
<1>9. CASE CreateIndex
  BY <1>9 DEF CreateIndex, control
<1>10. CASE EmbedDocuments
  BY <1>10 DEF EmbedDocuments, control
<1>11. CASE BulkIndex
  BY <1>11 DEF BulkIndex, control
<1>12. CASE StoreSopPdfs
  BY <1>12 DEF StoreSopPdfs, control, ghost
<1>13. CASE FindCollection
  BY <1>13 DEF FindCollection, control
<1>14. CASE DeleteCollection
  BY <1>14 DEF DeleteCollection
<1>15. CASE AwaitGone
  BY <1>15 DEF AwaitGone, control
<1>16. CASE GoneExpires
  BY <1>16 DEF GoneExpires, control
<1>17. CASE DeleteAccessPolicy
  BY <1>17 DEF DeleteAccessPolicy, Deleted
<1>18. CASE DeleteNetworkPolicy
  BY <1>18 DEF DeleteNetworkPolicy, Deleted
<1>19. CASE DeleteEncryptionPolicy
  BY <1>19 DEF DeleteEncryptionPolicy, Deleted
<1>20. CASE DeleteGroup
  BY <1>20 DEF DeleteGroup, Deleted
<1>21. CASE Killed
  BY <1>21 DEF Killed, control, ghost
<1>22. CASE CollectionSettles
  BY <1>22 DEF CollectionSettles, ghost
<1>23. CASE Upload
  BY <1>23 DEF Upload, control, ghost
<1>24. CASE \E type \in {"Create", "Update", "Delete"}, r \in Revisions :
               Request(type, r)
  BY <1>24 DEF Request, control
<1>25. CASE UNCHANGED vars
  BY <1>25 DEF vars, control, ghost
<1> QED
  BY <1>1, <1>2, <1>3, <1>4, <1>5, <1>6, <1>7, <1>8, <1>9, <1>10, <1>11, <1>12,
     <1>13, <1>14, <1>15, <1>16, <1>17, <1>18, <1>19, <1>20, <1>21, <1>22,
     <1>23, <1>24, <1>25
  DEF Next, Provision, Teardown, Idle

(* The rest of TypeOK. *)
Things ==
    /\ generation \in {"NEXTGEN", "CLASSIC"}
    /\ network \in {0} \cup Revisions /\ access \in {0} \cup Revisions
    /\ collection \in {"absent", "creating", "active", "failed", "deleting"}
    /\ index \in {"none", "mapped", "dynamic"} /\ seeds \in [Docs -> Nat]

Dealings ==
    /\ stack \in {"none", "live", "failed"}
    /\ request.type \in {"none", "Create", "Update", "Delete"}
    /\ request.revision \in {0} \cup Revisions
    /\ requests \in 0..MaxRequests /\ again \in 0..MaxAgain
    /\ answer \in {"none", "ok", "failed", "killed"}

LEMMA ThingsNext == Things /\ Dealings /\ [Next]_vars => Things'
<1> SUFFICES ASSUME Things, Dealings, [Next]_vars PROVE Things'
  OBVIOUS
<1> USE DEF Things
<1>1. CASE EnsureGroup
  BY <1>1 DEF EnsureGroup, Fixed, data
<1>2. CASE EnsureEncryptionPolicy
  BY <1>2 DEF EnsureEncryptionPolicy, Fixed, data
<1>3. CASE EnsureNetworkPolicy
  BY <1>3 DEF Dealings, EnsureNetworkPolicy, Ensured, Fixed, data
<1>4. CASE EnsureDataAccessPolicy
  BY <1>4 DEF Dealings, EnsureDataAccessPolicy, Ensured, Fixed, data
<1>5. CASE CreateCollection
  BY <1>5 DEF CreateCollection, Created, Fixed, data
<1>6. CASE AwaitActive
  BY <1>6 DEF AwaitActive, Fixed, control, data
<1>7. CASE AwaitExpires
  BY <1>7 DEF AwaitExpires, Fixed, control, data
<1>8. CASE DropIndex
  BY <1>8 DEF DropIndex, Nothing, TryAgain, Fixed, control, data
<1>9. CASE CreateIndex
  BY <1>9 DEF CreateIndex, TryAgain, Fixed, control
<1>10. CASE EmbedDocuments
  BY <1>10 DEF EmbedDocuments, Fixed, control, data
<1>11. CASE BulkIndex
  BY <1>11 DEF BulkIndex, Fixed, control
<1>12. CASE StoreSopPdfs
  BY <1>12 DEF StoreSopPdfs, Fixed, control, data
<1>13. CASE FindCollection
  BY <1>13 DEF FindCollection, Fixed, control, data
<1>14. CASE DeleteCollection
  BY <1>14 DEF DeleteCollection, Fixed, data
<1>15. CASE AwaitGone
  BY <1>15 DEF AwaitGone, Fixed, control, data
<1>16. CASE GoneExpires
  BY <1>16 DEF GoneExpires, Fixed, control, data
<1>17. CASE DeleteAccessPolicy
  BY <1>17 DEF DeleteAccessPolicy, Deleted, Fixed, data
<1>18. CASE DeleteNetworkPolicy
  BY <1>18 DEF DeleteNetworkPolicy, Deleted, Fixed, data
<1>19. CASE DeleteEncryptionPolicy
  BY <1>19 DEF DeleteEncryptionPolicy, Deleted, Fixed, data
<1>20. CASE DeleteGroup
  BY <1>20 DEF DeleteGroup, Deleted, Fixed, data
<1>21. CASE Killed
  BY <1>21 DEF Killed, control, data
<1>22. CASE CollectionSettles
  BY <1>22 DEF CollectionSettles, Nothing, data
<1>23. CASE Upload
  BY <1>23 DEF Upload, control
<1>24. CASE \E type \in {"Create", "Update", "Delete"}, r \in Revisions :
               Request(type, r)
  BY <1>24 DEF Request, control, data
<1>25. CASE UNCHANGED vars
  BY <1>25 DEF vars, control, data
<1> QED
  BY <1>1, <1>2, <1>3, <1>4, <1>5, <1>6, <1>7, <1>8, <1>9, <1>10, <1>11, <1>12,
     <1>13, <1>14, <1>15, <1>16, <1>17, <1>18, <1>19, <1>20, <1>21, <1>22,
     <1>23, <1>24, <1>25
  DEF Next, Provision, Teardown, Idle

LEMMA DealingsNext == Dealings /\ [Next]_vars => Dealings'
<1> SUFFICES ASSUME Dealings, [Next]_vars PROVE Dealings'
  OBVIOUS
<1> USE DEF Dealings
<1>1. CASE EnsureGroup
  BY <1>1 DEF EnsureGroup, Goto, Answers, Told, Raises, Fixed
<1>2. CASE EnsureEncryptionPolicy
  BY <1>2 DEF EnsureEncryptionPolicy, Goto, Answers, Told, Raises, Fixed
<1>3. CASE EnsureNetworkPolicy
  BY <1>3 DEF EnsureNetworkPolicy, Ensured, Goto, Answers, Told, Raises, Fixed
<1>4. CASE EnsureDataAccessPolicy
  BY <1>4 DEF EnsureDataAccessPolicy, Ensured, Goto, Answers, Told, Raises,
     Fixed
<1>5. CASE CreateCollection
  BY <1>5 DEF CreateCollection, Goto, Answers, Told, Raises, Fixed
<1>6. CASE AwaitActive
  BY <1>6 DEF AwaitActive, Goto, Answers, Told, Raises, Fixed
<1>7. CASE AwaitExpires
  BY <1>7 DEF AwaitExpires, Goto, Answers, Told, Fixed
<1>8. CASE DropIndex
  BY <1>8 DEF DropIndex, TryAgain, Goto, Fixed
<1>9. CASE CreateIndex
  BY <1>9 DEF CreateIndex, TryAgain, Goto, Fixed
<1>10. CASE EmbedDocuments
  BY <1>10 DEF EmbedDocuments, Goto, Fixed
<1>11. CASE BulkIndex
  BY <1>11 DEF BulkIndex, Goto, Fixed
<1>12. CASE StoreSopPdfs
  BY <1>12 DEF StoreSopPdfs, Goto, Answers, Told, Fixed
<1>13. CASE FindCollection
  BY <1>13 DEF FindCollection, Goto, Fixed
<1>14. CASE DeleteCollection
  BY <1>14 DEF DeleteCollection, Goto, Fixed
<1>15. CASE AwaitGone
  BY <1>15 DEF AwaitGone, Goto, Fixed
<1>16. CASE GoneExpires
  BY <1>16 DEF GoneExpires, Goto, Fixed
<1>17. CASE DeleteAccessPolicy
  BY <1>17 DEF DeleteAccessPolicy, Goto, Fixed
<1>18. CASE DeleteNetworkPolicy
  BY <1>18 DEF DeleteNetworkPolicy, Goto, Fixed
<1>19. CASE DeleteEncryptionPolicy
  BY <1>19 DEF DeleteEncryptionPolicy, Goto, Answers, Told, Fixed
<1>20. CASE DeleteGroup
  BY <1>20 DEF DeleteGroup, Goto, Answers, Told, Fixed
<1>21. CASE Killed
  BY <1>21, BoundsAssumption DEF Killed, Told
<1>22. CASE CollectionSettles
  BY <1>22 DEF CollectionSettles, cfn
<1>23. CASE Upload
  BY <1>23 DEF Upload, cfn
<1>24. CASE \E type \in {"Create", "Update", "Delete"}, r \in Revisions :
               Request(type, r)
  BY <1>24, BoundsAssumption DEF Request
<1>25. CASE UNCHANGED vars
  BY <1>25 DEF vars, cfn
<1> QED
  BY <1>1, <1>2, <1>3, <1>4, <1>5, <1>6, <1>7, <1>8, <1>9, <1>10, <1>11, <1>12,
     <1>13, <1>14, <1>15, <1>16, <1>17, <1>18, <1>19, <1>20, <1>21, <1>22,
     <1>23, <1>24, <1>25
  DEF Next, Provision, Teardown, Idle

LEMMA TypeNext == TypeOK /\ [Next]_vars => TypeOK'
<1> SUFFICES ASSUME TypeOK, [Next]_vars PROVE TypeOK'
  OBVIOUS
<1>1. Flags /\ Things /\ Dealings
  BY DEF TypeOK, Flags, Things, Dealings
<1>2. Flags' /\ Things' /\ Dealings'
  BY <1>1, FlagsNext, ThingsNext, DealingsNext
<1>3. clock' \in Nat /\ deadline' \in Nat
  BY TimeNext
<1> QED
  BY <1>2, <1>3, Zenon DEF TypeOK, Flags, Things, Dealings

(* Every variable keeps to its type. *)
THEOREM TypeCorrect == Spec => []TypeOK
<1>1. Init => TypeOK
  BY InitInv DEF IInv
<1> QED
  BY <1>1, TypeNext, PTL DEF Spec

-----------------------------------------------------------------------------
(* Where a run starts, and what an answer does to the stack. *)
LEMMA StartFacts ==
    \A type \in {"Create", "Update", "Delete"} :
        /\ type = "Delete" => Start(type) = "find"
        /\ type # "Delete" => Start(type) \in {"group", "encryption"}
        /\ type # "Delete" /\ generation = "NEXTGEN" => Start(type) = "group"
  BY DEF Start

(* What is left of a run that was killed. *)
LEMMA KilledFacts ==
    ASSUME Killed, PlaceInv
    PROVE  /\ pc # "idle"
           /\ UNCHANGED <<generation, request, requests, control, data>>
           /\ \/ pc' = "idle" /\ answer' = "killed" /\ UNCHANGED <<seeded, ghost>>
              \/ /\ pc' = Start(request.type) /\ answer' = answer
                 /\ ~seeded' /\ ~fault' /\ ~expired' /\ ~swallowed'
           /\ request.type \in {"Create", "Update", "Delete"}
<1>1. pc # "idle" /\ request.type \in {"Create", "Update", "Delete"}
  BY DEF Killed, OverLimit, PlaceInv
<1> QED
  BY <1>1 DEF Killed, Told

LEMMA PlaceNext == Dealings /\ PlaceInv /\ [Next]_vars => PlaceInv'
<1> SUFFICES ASSUME Dealings, PlaceInv, [Next]_vars PROVE PlaceInv'
  OBVIOUS
<1> USE DEF Dealings, PlaceInv, CreateSteps, DeleteSteps
<1>1. CASE EnsureGroup
  BY <1>1 DEF EnsureGroup, At, Goto, Answers, Told, Raises, Fixed, data
<1>2. CASE EnsureEncryptionPolicy
  BY <1>2 DEF EnsureEncryptionPolicy, At, Goto, Answers, Told, Raises, Fixed,
     data
<1>3. CASE EnsureNetworkPolicy
  BY <1>3 DEF EnsureNetworkPolicy, At, Ensured, Goto, Answers, Told, Raises,
     Fixed,
    data, ghost
<1>4. CASE EnsureDataAccessPolicy
  BY <1>4 DEF EnsureDataAccessPolicy, At, Ensured, Goto, Answers, Told,
     Raises,
    Fixed, data, ghost
<1>5. CASE CreateCollection
  BY <1>5 DEF CreateCollection, At, Created, Goto, Answers, Told, Raises,
     Fixed, data
<1>6. CASE AwaitActive
  BY <1>6 DEF AwaitActive, Goto, Answers, Told, Raises, Fixed, control, data
<1>7. CASE AwaitExpires
  BY <1>7 DEF AwaitExpires, Goto, Answers, Told, Fixed, control, data
<1>8. CASE DropIndex
  BY <1>8 DEF DropIndex, TryAgain, Nothing, Goto, Fixed, control, data
<1>9. CASE CreateIndex
  BY <1>9 DEF CreateIndex, TryAgain, Goto, Fixed, control
<1>10. CASE EmbedDocuments
  BY <1>10 DEF EmbedDocuments, At, Goto, Fixed, control, data
<1>11. CASE BulkIndex
  BY <1>11 DEF BulkIndex, At, Goto, Fixed, control
<1>12. CASE StoreSopPdfs
  BY <1>12 DEF StoreSopPdfs, At, Goto, Answers, Told, Fixed, control, data,
     ghost
<1>13. CASE FindCollection
  BY <1>13 DEF FindCollection, At, InUse, Goto, Fixed, control, data
<1>14. CASE DeleteCollection
  BY <1>14 DEF DeleteCollection, At, InUse, Goto, Fixed, data
<1>15. CASE AwaitGone
  BY <1>15 DEF AwaitGone, InUse, Goto, Fixed, control, data
<1>16. CASE GoneExpires
  BY <1>16 DEF GoneExpires, Goto, Fixed, control, data
<1>17. CASE DeleteAccessPolicy
  BY <1>17 DEF DeleteAccessPolicy, At, Deleted, InUse, Goto, Fixed, data
<1>18. CASE DeleteNetworkPolicy
  BY <1>18 DEF DeleteNetworkPolicy, At, Deleted, InUse, Goto, Fixed, data
<1>19. CASE DeleteEncryptionPolicy
  BY <1>19 DEF DeleteEncryptionPolicy, At, Deleted, InUse, Goto, Answers,
     Told,
    Fixed, data
<1>20. CASE DeleteGroup
  BY <1>20 DEF DeleteGroup, At, Deleted, InUse, Goto, Answers, Told, Fixed,
     data
<1>21. CASE Killed
  BY <1>21, KilledFacts, StartFacts DEF control, data, ghost
<1>22. CASE CollectionSettles
  BY <1>22 DEF CollectionSettles, Nothing, data, cfn, ghost
<1>23. CASE Upload
  BY <1>23 DEF Upload, control, cfn, ghost
<1>24. ASSUME NEW type \in {"Create", "Update", "Delete"}, NEW r \in Revisions,
              Request(type, r)
       PROVE  PlaceInv'
  <2>1. request'.type = type /\ request'.revision = r /\ answer' = "none"
    BY <1>24 DEF Request
  <2>2. pc' = Start(type)
    BY <1>24 DEF Request
  <2> QED
    BY <2>1, <2>2, StartFacts
<1>25. CASE UNCHANGED vars
  BY <1>25 DEF vars, control, data, cfn, ghost
<1> QED
  BY <1>1, <1>2, <1>3, <1>4, <1>5, <1>6, <1>7, <1>8, <1>9, <1>10, <1>11,
     <1>12, <1>13, <1>14, <1>15, <1>16, <1>17, <1>18, <1>19, <1>20, <1>21,
     <1>22, <1>23, <1>24, <1>25
  DEF Next, Provision, Teardown, Idle

LEMMA StageNext == Dealings /\ PlaceInv /\ StageInv /\ [Next]_vars => StageInv'
<1> SUFFICES ASSUME Dealings, PlaceInv, StageInv, [Next]_vars PROVE StageInv'
  OBVIOUS
<1> USE DEF PlaceInv, StageInv, CreateSteps, DeleteSteps, Written,
            SuccessIsUsable, Provisioned
<1>1. CASE EnsureGroup
  BY <1>1 DEF EnsureGroup, At, Goto, Answers, Told, Raises, Fixed, data
<1>2. CASE EnsureEncryptionPolicy
  BY <1>2 DEF EnsureEncryptionPolicy, At, Goto, Answers, Told, Raises, Fixed,
     data
<1>3. CASE EnsureNetworkPolicy
  BY <1>3, BoundsAssumption DEF Dealings, EnsureNetworkPolicy, At, Ensured,
    Goto, Answers, Told, Raises, Fixed, data, ghost
<1>4. CASE EnsureDataAccessPolicy
  BY <1>4, BoundsAssumption DEF Dealings, EnsureDataAccessPolicy, At, Ensured,
    Goto, Answers, Told, Raises, Fixed, data, ghost
<1>5. CASE CreateCollection
  BY <1>5 DEF CreateCollection, At, Created, Goto, Answers, Told, Raises,
     Fixed, data
<1>6. CASE AwaitActive
  BY <1>6 DEF AwaitActive, Goto, Answers, Told, Raises, Fixed, control, data
<1>7. CASE AwaitExpires
  BY <1>7 DEF AwaitExpires, Goto, Answers, Told, Fixed, control, data
<1>8. CASE DropIndex
  BY <1>8 DEF DropIndex, TryAgain, Nothing, Goto, Fixed, control, data
<1>9. CASE CreateIndex
  BY <1>9 DEF CreateIndex, TryAgain, Goto, Fixed, control
<1>10. CASE EmbedDocuments
  BY <1>10 DEF EmbedDocuments, At, Goto, Fixed, control, data
<1>11. CASE BulkIndex
  BY <1>11 DEF BulkIndex, At, Goto, Fixed, control
<1>12. CASE StoreSopPdfs
  BY <1>12 DEF StoreSopPdfs, At, Goto, Answers, Told, Fixed, control, data,
     ghost
<1>13. CASE FindCollection
  BY <1>13 DEF FindCollection, At, InUse, Goto, Fixed, control, data
<1>14. CASE DeleteCollection
  BY <1>14 DEF DeleteCollection, At, InUse, Goto, Fixed, data
<1>15. CASE AwaitGone
  BY <1>15 DEF AwaitGone, InUse, Goto, Fixed, control, data
<1>16. CASE GoneExpires
  BY <1>16 DEF GoneExpires, Goto, Fixed, control, data
<1>17. CASE DeleteAccessPolicy
  BY <1>17 DEF DeleteAccessPolicy, At, Deleted, InUse, Goto, Fixed, data
<1>18. CASE DeleteNetworkPolicy
  BY <1>18 DEF DeleteNetworkPolicy, At, Deleted, InUse, Goto, Fixed, data
<1>19. CASE DeleteEncryptionPolicy
  BY <1>19 DEF DeleteEncryptionPolicy, At, Deleted, InUse, Goto, Answers,
     Told,
    Fixed, data
<1>20. CASE DeleteGroup
  BY <1>20 DEF DeleteGroup, At, Deleted, InUse, Goto, Answers, Told, Fixed,
     data
<1>21. CASE Killed
  BY <1>21, KilledFacts, StartFacts DEF control, data, ghost
<1>22. CASE CollectionSettles
  BY <1>22 DEF CollectionSettles, Nothing, data, cfn, ghost
<1>23. CASE Upload
  BY <1>23 DEF Upload, control, cfn, ghost
<1>24. CASE \E type \in {"Create", "Update", "Delete"}, r \in Revisions :
               Request(type, r)
  BY <1>24, BoundsAssumption DEF Request, Start, control, data
<1>25. CASE UNCHANGED vars
  BY <1>25 DEF vars, control, data, cfn, ghost
<1> QED
  BY <1>1, <1>2, <1>3, <1>4, <1>5, <1>6, <1>7, <1>8, <1>9, <1>10, <1>11,
     <1>12, <1>13, <1>14, <1>15, <1>16, <1>17, <1>18, <1>19, <1>20, <1>21,
     <1>22, <1>23, <1>24, <1>25
  DEF Next, Provision, Teardown, Idle

LEMMA Units == 0 + 1 = 1 /\ 0 + 0 = 0
  OBVIOUS

LEMMA SeedNext == PlaceInv /\ StageInv /\ SeedInv /\ [Next]_vars => SeedInv'
<1> SUFFICES ASSUME PlaceInv, StageInv, SeedInv, [Next]_vars PROVE SeedInv'
  OBVIOUS
<1> USE DEF PlaceInv, StageInv, SeedInv, CreateSteps, DeleteSteps
<1>1. CASE EnsureGroup
  BY <1>1 DEF EnsureGroup, At, Goto, Answers, Told, Raises, Fixed, data
<1>2. CASE EnsureEncryptionPolicy
  BY <1>2 DEF EnsureEncryptionPolicy, At, Goto, Answers, Told, Raises, Fixed,
     data
<1>3. CASE EnsureNetworkPolicy
  BY <1>3 DEF EnsureNetworkPolicy, At, Ensured, Goto, Answers, Told, Raises,
     Fixed,
    data, ghost
<1>4. CASE EnsureDataAccessPolicy
  BY <1>4 DEF EnsureDataAccessPolicy, At, Ensured, Goto, Answers, Told,
     Raises,
    Fixed, data, ghost
<1>5. CASE CreateCollection
  BY <1>5 DEF CreateCollection, At, Created, Goto, Answers, Told, Raises,
     Fixed, data
<1>6. CASE AwaitActive
  BY <1>6 DEF AwaitActive, Goto, Answers, Told, Raises, Fixed, control, data
<1>7. CASE AwaitExpires
  BY <1>7 DEF AwaitExpires, Goto, Answers, Told, Fixed, control, data
<1>8. CASE DropIndex
  BY <1>8 DEF DropIndex, TryAgain, Nothing, Goto, Fixed, control, data
<1>9. CASE CreateIndex
  BY <1>9 DEF CreateIndex, TryAgain, Goto, Fixed, control
<1>10. CASE EmbedDocuments
  BY <1>10 DEF EmbedDocuments, At, Goto, Fixed, control, data
<1>11. CASE BulkIndex
  <2>1. seeds = Nothing /\ index = "mapped" /\ collection = "active" /\ ~seeded
    BY <1>11 DEF BulkIndex, At
  <2>2. PICK some \in SUBSET Docs :
            /\ seeds' = [d \in Docs |-> seeds[d] + IF d \in some THEN 1 ELSE 0]
            /\ some = Docs \/ seeded' = seeded
    BY <1>11 DEF BulkIndex
  <2>3. \A d \in Docs : seeds'[d] = IF d \in some THEN 1 ELSE 0
    <3>1. \A d \in Docs : seeds[d] = 0
      BY <2>1 DEF Nothing
    <3>2. ASSUME NEW d \in Docs, d \in some PROVE seeds'[d] = 0 + 1
      BY <2>2, <3>1, <3>2
    <3>3. ASSUME NEW d \in Docs, d \notin some PROVE seeds'[d] = 0 + 0
      BY <2>2, <3>1, <3>3
    <3> QED
      BY <3>2, <3>3, Units, Zenon
  <2>4. pc' = "sops" /\ collection' = collection /\ index' = index
    BY <1>11 DEF BulkIndex, Goto, control
  <2>5. \A d \in Docs : seeds'[d] \in {0, 1}
    BY <2>3
  <2>6. seeded' => \A d \in Docs : seeds'[d] = 1
    BY <2>1, <2>2, <2>3
  <2> QED
    BY <2>1, <2>4, <2>5, <2>6
<1>12. CASE StoreSopPdfs
  BY <1>12 DEF StoreSopPdfs, At, Goto, Answers, Told, Fixed, control, data,
     ghost
<1>13. CASE FindCollection
  BY <1>13 DEF FindCollection, At, InUse, Goto, Fixed, control, data
<1>14. CASE DeleteCollection
  BY <1>14 DEF DeleteCollection, At, InUse, Goto, Fixed, data
<1>15. CASE AwaitGone
  BY <1>15 DEF AwaitGone, InUse, Goto, Fixed, control, data
<1>16. CASE GoneExpires
  BY <1>16 DEF GoneExpires, Goto, Fixed, control, data
<1>17. CASE DeleteAccessPolicy
  BY <1>17 DEF DeleteAccessPolicy, At, Deleted, InUse, Goto, Fixed, data
<1>18. CASE DeleteNetworkPolicy
  BY <1>18 DEF DeleteNetworkPolicy, At, Deleted, InUse, Goto, Fixed, data
<1>19. CASE DeleteEncryptionPolicy
  BY <1>19 DEF DeleteEncryptionPolicy, At, Deleted, InUse, Goto, Answers,
     Told,
    Fixed, data
<1>20. CASE DeleteGroup
  BY <1>20 DEF DeleteGroup, At, Deleted, InUse, Goto, Answers, Told, Fixed,
     data
<1>21. CASE Killed
  <2>1. /\ pc # "idle" /\ collection' = collection
        /\ index' = index /\ seeds' = seeds
    BY <1>21, KilledFacts DEF control, data
  <2>2. CASE pc' = "idle" /\ seeded' = seeded
    BY <2>1, <2>2
  <2>3. CASE pc' = Start(request.type) /\ ~seeded'
    <3>1. pc' \in {"find", "group", "encryption"}
      BY <1>21, <2>3, KilledFacts, StartFacts
    <3> QED
      BY <2>1, <2>3, <3>1
  <2> QED
    BY <1>21, <2>2, <2>3, KilledFacts DEF ghost
<1>22. CASE CollectionSettles
  <2>1. pc' = pc /\ seeded' = seeded /\ collection # "active"
    BY <1>22 DEF CollectionSettles
  <2>2. CASE data' = data
    BY <2>1, <2>2 DEF data
  <2>3. CASE seeds' = Nothing
    <3>1. \A d \in Docs : seeds'[d] \in {0, 1}
      BY <2>3 DEF Nothing
    <3> QED
      BY <2>1, <3>1
  <2> QED
    BY <1>22, <2>2, <2>3 DEF CollectionSettles
<1>23. CASE Upload
  BY <1>23 DEF Upload, control, cfn, ghost
<1>24. CASE \E type \in {"Create", "Update", "Delete"}, r \in Revisions :
               Request(type, r)
  BY <1>24 DEF Request, Start, control, data
<1>25. CASE UNCHANGED vars
  BY <1>25 DEF vars, control, data, cfn, ghost
<1> QED
  BY <1>1, <1>2, <1>3, <1>4, <1>5, <1>6, <1>7, <1>8, <1>9, <1>10, <1>11,
     <1>12, <1>13, <1>14, <1>15, <1>16, <1>17, <1>18, <1>19, <1>20, <1>21,
     <1>22, <1>23, <1>24, <1>25
  DEF Next, Provision, Teardown, Idle

LEMMA GoneNext == PlaceInv /\ GoneInv /\ [Next]_vars => GoneInv'
<1> SUFFICES ASSUME PlaceInv, GoneInv, [Next]_vars PROVE GoneInv'
  OBVIOUS
<1> USE DEF PlaceInv, GoneInv, CreateSteps, DeleteSteps, CleanDelete
<1>1. CASE EnsureGroup
  BY <1>1 DEF EnsureGroup, At, Goto, Answers, Told, Raises, Fixed, data
<1>2. CASE EnsureEncryptionPolicy
  BY <1>2 DEF EnsureEncryptionPolicy, At, Goto, Answers, Told, Raises, Fixed,
     data
<1>3. CASE EnsureNetworkPolicy
  BY <1>3 DEF EnsureNetworkPolicy, At, Ensured, Goto, Answers, Told, Raises,
     Fixed,
    data, ghost
<1>4. CASE EnsureDataAccessPolicy
  BY <1>4 DEF EnsureDataAccessPolicy, At, Ensured, Goto, Answers, Told,
     Raises,
    Fixed, data, ghost
<1>5. CASE CreateCollection
  BY <1>5 DEF CreateCollection, At, Created, Goto, Answers, Told, Raises,
     Fixed, data
<1>6. CASE AwaitActive
  BY <1>6 DEF AwaitActive, Goto, Answers, Told, Raises, Fixed, control, data
<1>7. CASE AwaitExpires
  BY <1>7 DEF AwaitExpires, Goto, Answers, Told, Fixed, control, data
<1>8. CASE DropIndex
  BY <1>8 DEF DropIndex, TryAgain, Nothing, Goto, Fixed, control, data
<1>9. CASE CreateIndex
  BY <1>9 DEF CreateIndex, TryAgain, Goto, Fixed, control
<1>10. CASE EmbedDocuments
  BY <1>10 DEF EmbedDocuments, At, Goto, Fixed, control, data
<1>11. CASE BulkIndex
  BY <1>11 DEF BulkIndex, At, Goto, Fixed, control
<1>12. CASE StoreSopPdfs
  BY <1>12 DEF StoreSopPdfs, At, Goto, Answers, Told, Fixed, control, data,
     ghost
<1>13. CASE FindCollection
  BY <1>13 DEF FindCollection, At, InUse, Goto, Fixed, control, data
<1>14. CASE DeleteCollection
  BY <1>14 DEF DeleteCollection, At, InUse, Goto, Fixed, data
<1>15. CASE AwaitGone
  BY <1>15 DEF AwaitGone, InUse, Goto, Fixed, control, data
<1>16. CASE GoneExpires
  BY <1>16 DEF GoneExpires, Goto, Fixed, control, data
<1>17. CASE DeleteAccessPolicy
  <2>1. SUFFICES ASSUME ~fault', ~expired' PROVE GoneInv'
    OBVIOUS
  <2>2. /\ network' = network /\ encryption' = encryption /\ group' = group
        /\ collection' = collection /\ request' = request
        /\ generation' = generation /\ expired' = expired
    BY <1>17 DEF DeleteAccessPolicy, Fixed, data
  <2>3. fault' = fault /\ access' = IF InUse THEN access ELSE 0
    BY <1>17, <2>1 DEF DeleteAccessPolicy, Deleted
  <2>4. /\ pc = "delete access"
        /\ pc' = "delete network" /\ answer' = answer
    BY <1>17 DEF DeleteAccessPolicy, At, Goto
  <2>5. ~InUse
    BY <2>1, <2>2, <2>3, <2>4 DEF InUse
  <2> QED
    BY <2>1, <2>2, <2>3, <2>4, <2>5 DEF InUse
<1>18. CASE DeleteNetworkPolicy
  <2>1. SUFFICES ASSUME ~fault', ~expired' PROVE GoneInv'
    OBVIOUS
  <2>2. /\ access' = access /\ encryption' = encryption /\ group' = group
        /\ collection' = collection /\ request' = request
        /\ generation' = generation /\ expired' = expired
    BY <1>18 DEF DeleteNetworkPolicy, Fixed, data
  <2>3. fault' = fault /\ network' = IF InUse THEN network ELSE 0
    BY <1>18, <2>1 DEF DeleteNetworkPolicy, Deleted
  <2>4. /\ pc = "delete network"
        /\ pc' = "delete encryption" /\ answer' = answer
    BY <1>18 DEF DeleteNetworkPolicy, At, Goto
  <2>5. ~InUse
    BY <2>1, <2>2, <2>3, <2>4 DEF InUse
  <2> QED
    BY <2>1, <2>2, <2>3, <2>4, <2>5 DEF InUse
<1>19. CASE DeleteEncryptionPolicy
  <2>1. SUFFICES ASSUME ~fault', ~expired' PROVE GoneInv'
    OBVIOUS
  <2>2. /\ access' = access /\ network' = network /\ group' = group
        /\ collection' = collection /\ request' = request
        /\ generation' = generation /\ expired' = expired
    BY <1>19 DEF DeleteEncryptionPolicy, Fixed, data
  <2>3. fault' = fault /\ encryption' = IF InUse THEN encryption ELSE FALSE
    BY <1>19, <2>1 DEF DeleteEncryptionPolicy, Deleted
  <2>4. /\ pc = "delete encryption"
        /\ \/ pc' = "delete group" /\ answer' = answer
           \/ pc' = "late" /\ answer' = answer
           \/ pc' = "idle" /\ generation # "NEXTGEN"
    BY <1>19 DEF DeleteEncryptionPolicy, At, Goto, Answers, Told
  <2>5. ~InUse
    BY <2>1, <2>2, <2>3, <2>4 DEF InUse
  <2>6. network = 0 /\ access = 0 /\ answer = "none"
    BY <2>1, <2>2, <2>3, <2>4
  <2>7. network' = 0 /\ access' = 0 /\ ~encryption' /\ collection' = "absent"
    BY <2>2, <2>3, <2>5, <2>6 DEF InUse
  <2>8. CASE pc' \in {"delete group", "late"} /\ answer' = answer
    BY <2>6, <2>7, <2>8
  <2>9. CASE pc' = "idle" /\ generation' # "NEXTGEN"
    BY <2>7, <2>9
  <2> QED
    BY <2>2, <2>4, <2>8, <2>9
<1>20. CASE DeleteGroup
  <2>1. SUFFICES ASSUME ~fault', ~expired' PROVE GoneInv'
    OBVIOUS
  <2>2. /\ access' = access /\ network' = network /\ encryption' = encryption
        /\ collection' = collection /\ request' = request
        /\ generation' = generation /\ expired' = expired
    BY <1>20 DEF DeleteGroup, Fixed, data
  <2>3. fault' = fault /\ group' = IF InUse THEN group ELSE FALSE
    BY <1>20, <2>1 DEF DeleteGroup, Deleted
  <2>4. /\ pc = "delete group"
        /\ pc' \in {"idle", "late"}
    BY <1>20 DEF DeleteGroup, At, Goto, Answers, Told
  <2>5. ~InUse
    BY <2>1, <2>2, <2>3, <2>4 DEF InUse
  <2>6. network = 0 /\ access = 0 /\ ~encryption
    BY <2>1, <2>2, <2>3, <2>4
  <2>7. network' = 0 /\ access' = 0 /\ ~encryption' /\ ~group'
    BY <2>2, <2>3, <2>5, <2>6
  <2> QED
    BY <2>2, <2>4, <2>5, <2>7 DEF InUse
<1>21. CASE Killed
  BY <1>21, KilledFacts, StartFacts DEF control, data, ghost
<1>22. CASE CollectionSettles
  BY <1>22 DEF CollectionSettles, Nothing, data, cfn, ghost
<1>23. CASE Upload
  BY <1>23 DEF Upload, control, cfn, ghost
<1>24. CASE \E type \in {"Create", "Update", "Delete"}, r \in Revisions :
               Request(type, r)
  BY <1>24 DEF Request, Start, control, data
<1>25. CASE UNCHANGED vars
  BY <1>25 DEF vars, control, data, cfn, ghost
<1> QED
  BY <1>1, <1>2, <1>3, <1>4, <1>5, <1>6, <1>7, <1>8, <1>9, <1>10, <1>11,
     <1>12, <1>13, <1>14, <1>15, <1>16, <1>17, <1>18, <1>19, <1>20, <1>21,
     <1>22, <1>23, <1>24, <1>25
  DEF Next, Provision, Teardown, Idle

LEMMA FailsNext == PlaceInv /\ FailsForAReason /\ [Next]_vars => FailsForAReason'
<1> SUFFICES ASSUME PlaceInv, FailsForAReason, [Next]_vars PROVE FailsForAReason'
  OBVIOUS
<1> USE DEF PlaceInv, FailsForAReason, CreateSteps, DeleteSteps
<1>1. CASE EnsureGroup
  BY <1>1 DEF EnsureGroup, At, Goto, Answers, Told, Raises, Fixed, data
<1>2. CASE EnsureEncryptionPolicy
  BY <1>2 DEF EnsureEncryptionPolicy, At, Goto, Answers, Told, Raises, Fixed,
     data
<1>3. CASE EnsureNetworkPolicy
  BY <1>3 DEF EnsureNetworkPolicy, At, Ensured, Goto, Answers, Told, Raises,
     Fixed,
    data, ghost
<1>4. CASE EnsureDataAccessPolicy
  BY <1>4 DEF EnsureDataAccessPolicy, At, Ensured, Goto, Answers, Told,
     Raises,
    Fixed, data, ghost
<1>5. CASE CreateCollection
  BY <1>5 DEF CreateCollection, At, Created, Goto, Answers, Told, Raises,
     Fixed, data
<1>6. CASE AwaitActive
  BY <1>6 DEF AwaitActive, Goto, Answers, Told, Raises, Fixed, control, data
<1>7. CASE AwaitExpires
  BY <1>7 DEF AwaitExpires, Goto, Answers, Told, Fixed, control, data
<1>8. CASE DropIndex
  BY <1>8 DEF DropIndex, TryAgain, Nothing, Goto, Fixed, control, data
<1>9. CASE CreateIndex
  BY <1>9 DEF CreateIndex, TryAgain, Goto, Fixed, control
<1>10. CASE EmbedDocuments
  BY <1>10 DEF EmbedDocuments, At, Goto, Fixed, control, data
<1>11. CASE BulkIndex
  BY <1>11 DEF BulkIndex, At, Goto, Fixed, control
<1>12. CASE StoreSopPdfs
  BY <1>12 DEF StoreSopPdfs, At, Goto, Answers, Told, Fixed, control, data,
     ghost
<1>13. CASE FindCollection
  BY <1>13 DEF FindCollection, At, InUse, Goto, Fixed, control, data
<1>14. CASE DeleteCollection
  BY <1>14 DEF DeleteCollection, At, InUse, Goto, Fixed, data
<1>15. CASE AwaitGone
  BY <1>15 DEF AwaitGone, InUse, Goto, Fixed, control, data
<1>16. CASE GoneExpires
  BY <1>16 DEF GoneExpires, Goto, Fixed, control, data
<1>17. CASE DeleteAccessPolicy
  BY <1>17 DEF DeleteAccessPolicy, At, Deleted, InUse, Goto, Fixed, data
<1>18. CASE DeleteNetworkPolicy
  BY <1>18 DEF DeleteNetworkPolicy, At, Deleted, InUse, Goto, Fixed, data
<1>19. CASE DeleteEncryptionPolicy
  BY <1>19 DEF DeleteEncryptionPolicy, At, Deleted, InUse, Goto, Answers,
     Told,
    Fixed, data
<1>20. CASE DeleteGroup
  BY <1>20 DEF DeleteGroup, At, Deleted, InUse, Goto, Answers, Told, Fixed,
     data
<1>21. CASE Killed
  BY <1>21, KilledFacts, StartFacts DEF control, data, ghost
<1>22. CASE CollectionSettles
  BY <1>22 DEF CollectionSettles, Nothing, data, cfn, ghost
<1>23. CASE Upload
  BY <1>23 DEF Upload, control, cfn, ghost
<1>24. CASE \E type \in {"Create", "Update", "Delete"}, r \in Revisions :
               Request(type, r)
  BY <1>24 DEF Request, Start, control, data
<1>25. CASE UNCHANGED vars
  BY <1>25 DEF vars, control, data, cfn, ghost
<1> QED
  BY <1>1, <1>2, <1>3, <1>4, <1>5, <1>6, <1>7, <1>8, <1>9, <1>10, <1>11,
     <1>12, <1>13, <1>14, <1>15, <1>16, <1>17, <1>18, <1>19, <1>20, <1>21,
     <1>22, <1>23, <1>24, <1>25
  DEF Next, Provision, Teardown, Idle

-----------------------------------------------------------------------------
(* The step the handler is at tells what stands: the invariant the theorems *)
(* below follow from.                                                       *)
THEOREM Inductive == Spec => []IInv
<1>1. IInv /\ [Next]_vars => IInv'
  <2> SUFFICES ASSUME IInv, [Next]_vars PROVE IInv'
    OBVIOUS
  <2>1. TypeOK /\ PlaceInv /\ StageInv /\ SeedInv /\ GoneInv /\ FailsForAReason
    BY DEF IInv
  <2>2. Dealings
    BY <2>1 DEF TypeOK, Dealings
  <2>3. TypeOK' /\ PlaceInv' /\ StageInv'
    BY <2>1, <2>2, TypeNext, PlaceNext, StageNext
  <2>4. SeedInv' /\ GoneInv' /\ FailsForAReason'
    BY <2>1, SeedNext, GoneNext, FailsNext
  <2> QED
    BY <2>3, <2>4 DEF IInv
<1> QED
  BY InitInv, <1>1, PTL DEF Spec

(* CloudFormation is told of success only when the collection is active and *)
(* has its group and its policies, whatever calls failed or were lost.      *)
THEOREM Usable == Spec => []SuccessIsUsable
<1>1. IInv => SuccessIsUsable
  BY DEF IInv, StageInv
<1> QED
  BY <1>1, Inductive, PTL

(* No document is indexed twice, and Seeded = "true" is said of an index    *)
(* that has the mapping and all of them, for any number of redeliveries.    *)
THEOREM Seeded == Spec => []SeedsOnce
<1>1. IInv => SeedsOnce
  <2> SUFFICES ASSUME IInv PROVE SeedsOnce
    OBVIOUS
  <2>1. SeedInv /\ seeds \in [Docs -> Nat]
    BY DEF IInv, TypeOK
  <2>2. ASSUME NEW d \in Docs PROVE seeds[d] <= 1
    <3>1. seeds[d] = 0 \/ seeds[d] = 1
      BY <2>1 DEF SeedInv
    <3> QED
      BY <3>1
  <2> QED
    BY <2>1, <2>2 DEF SeedInv, SeedsOnce
<1> QED
  BY <1>1, Inductive, PTL

(* A Delete that met no failure and no expired wait has left nothing.       *)
THEOREM Clean == Spec => []CleanDelete
<1>1. IInv => CleanDelete
  BY DEF IInv, GoneInv, CleanDelete
<1> QED
  BY <1>1, Inductive, PTL

(* A Create or an Update fails only for a failed call, an expired wait or a *)
(* failed collection, never for what an earlier attempt left.               *)
THEOREM Reasons == Spec => []FailsForAReason
<1>1. IInv => FailsForAReason
  BY DEF IInv
<1> QED
  BY <1>1, Inductive, PTL
-----------------------------------------------------------------------------
(***************************************************************************)
(* The time of a Delete: seven calls and one bounded wait.                 *)
(***************************************************************************)

(* How late each step of a Delete can start, when no call takes more than F.*)
LateInv(F) ==
    /\ pc = "find" => clock = 0
    /\ pc = "delete" => clock <= F
    /\ pc = "gone" => clock <= deadline + F /\ deadline <= ActiveWait + 2 * F
    /\ pc = "delete access" => clock <= ActiveWait + 3 * F
    /\ pc = "delete network" => clock <= ActiveWait + 4 * F
    /\ pc = "delete encryption" => clock <= ActiveWait + 5 * F
    /\ pc = "delete group" => clock <= ActiveWait + 6 * F
    /\ pc = "late" => request.type # "Delete"

LEMMA Adds ==
    ASSUME NEW F \in Nat, NEW w \in Nat, NEW c \in Nat, NEW d \in Nat, d <= F
    PROVE  /\ c = 0 => c + d <= F /\ c + d <= w + 3 * F
           /\ c <= F => /\ c + d <= w + 3 * F
                        /\ c + d <= c + d + w + F
                        /\ c + d + w <= w + 2 * F
           /\ c <= w + 3 * F => c + d <= w + 4 * F
           /\ c <= w + 4 * F => c + d <= w + 5 * F
           /\ c <= w + 5 * F => c + d <= w + 6 * F
           /\ \A l \in Nat : w + 7 * F <= l =>
                 /\ c <= w + 5 * F => c + d <= l
                 /\ c <= w + 6 * F => c + d <= l
  OBVIOUS

LEMMA Waits ==
    ASSUME NEW F \in Nat, NEW w \in Nat, NEW c \in Nat, NEW d \in Nat, d <= F,
           NEW e \in Nat, e <= w + 2 * F
    PROVE  /\ c <= e + F => c <= w + 3 * F
           /\ c < e => /\ c + d + 1 <= e + F
                       /\ c + d <= w + 3 * F
  OBVIOUS

LEMMA ProvisionPlace == Provision => pc \in CreateSteps /\ request' = request
  BY DEF Provision, EnsureGroup, EnsureEncryptionPolicy, EnsureNetworkPolicy,
     EnsureDataAccessPolicy, CreateCollection, AwaitActive, AwaitExpires,
     DropIndex, CreateIndex, EmbedDocuments, BulkIndex, StoreSopPdfs, At, Fixed,
     CreateSteps

LEMMA LateNext ==
    ASSUME NEW F \in Nat, \A d \in Fast : d <= F, ActiveWait + 7 * F <= Limit,
           TypeOK, PlaceInv, LateInv(F), [Next]_vars
    PROVE  LateInv(F)'
<1>1. /\ clock \in Nat /\ deadline \in Nat /\ ActiveWait \in Nat /\ Limit \in Nat
      /\ \A d \in Fast : d \in Nat /\ d <= F
  BY TimesAssumption DEF TypeOK
<1>2. CASE Provision
  <2>1. pc' \in CreateSteps \cup {"idle", "late"}
    BY <1>2 DEF Provision, EnsureGroup, EnsureEncryptionPolicy,
       EnsureNetworkPolicy, EnsureDataAccessPolicy, Ensured, CreateCollection,
       AwaitActive, AwaitExpires, DropIndex, CreateIndex, TryAgain,
       EmbedDocuments, BulkIndex, StoreSopPdfs, Raises, Answers, Told, Goto,
       CreateSteps
  <2>2. pc \in CreateSteps /\ request' = request
    BY <1>2, ProvisionPlace
  <2> QED
    BY <2>1, <2>2 DEF CreateSteps, LateInv, PlaceInv
<1>3. CASE FindCollection
  <2>1. PICK d \in Fast : clock' = clock + d
    BY <1>3 DEF FindCollection, At
  <2>2. pc = "find" /\ pc' \in {"delete", "delete access"}
    BY <1>3 DEF FindCollection, At, Goto
  <2>3. clock + d <= F /\ clock + d <= ActiveWait + 3 * F
    BY <1>1, <2>2, Adds DEF LateInv
  <2> QED
    BY <2>1, <2>2, <2>3 DEF LateInv
<1>4. CASE DeleteCollection
  <2>1. PICK d \in Fast : clock' = clock + d
    BY <1>4 DEF DeleteCollection, At
  <2>2. pc = "delete" /\ pc' \in {"gone", "delete access"}
    BY <1>4 DEF DeleteCollection, At, Goto
  <2>3. deadline' = clock + d + ActiveWait
    BY <1>4, <2>1 DEF DeleteCollection
  <2>4. /\ clock + d <= ActiveWait + 3 * F
        /\ clock + d <= clock + d + ActiveWait + F
        /\ clock + d + ActiveWait <= ActiveWait + 2 * F
    BY <1>1, <2>2, Adds DEF LateInv
  <2> QED
    BY <2>1, <2>2, <2>3, <2>4 DEF LateInv
<1>5. CASE AwaitGone
  <2>1. PICK d \in Fast :
            \/ clock' = clock + d /\ pc' = "delete access"
            \/ clock' = clock + d + 1 /\ pc' = "gone"
    BY <1>5 DEF AwaitGone, Goto
  <2>2. pc = "gone" /\ clock < deadline /\ deadline' = deadline
    BY <1>5 DEF AwaitGone
  <2>3. deadline <= ActiveWait + 2 * F
    BY <2>2 DEF LateInv
  <2>4. clock + d + 1 <= deadline + F /\ clock + d <= ActiveWait + 3 * F
    BY <1>1, <2>2, <2>3, Waits
  <2> QED
    BY <2>1, <2>2, <2>3, <2>4 DEF LateInv
<1>6. CASE GoneExpires
  <2>1. pc = "gone" /\ pc' = "delete access" /\ clock' = clock
    BY <1>6 DEF GoneExpires, Goto
  <2>2. clock <= deadline + F /\ deadline <= ActiveWait + 2 * F
    BY <2>1 DEF LateInv
  <2>3. clock <= ActiveWait + 3 * F
    BY <1>1, <2>2, Waits
  <2> QED
    BY <2>1, <2>3 DEF LateInv
<1>7. CASE DeleteAccessPolicy
  <2>1. PICK d \in Fast : clock' = clock + d
    BY <1>7 DEF DeleteAccessPolicy, At
  <2>2. pc = "delete access" /\ pc' = "delete network"
    BY <1>7 DEF DeleteAccessPolicy, At, Goto
  <2>3. clock + d <= ActiveWait + 4 * F
    BY <1>1, <2>2, Adds DEF LateInv
  <2> QED
    BY <2>1, <2>2, <2>3 DEF LateInv
<1>8. CASE DeleteNetworkPolicy
  <2>1. PICK d \in Fast : clock' = clock + d
    BY <1>8 DEF DeleteNetworkPolicy, At
  <2>2. pc = "delete network" /\ pc' = "delete encryption"
    BY <1>8 DEF DeleteNetworkPolicy, At, Goto
  <2>3. clock + d <= ActiveWait + 5 * F
    BY <1>1, <2>2, Adds DEF LateInv
  <2> QED
    BY <2>1, <2>2, <2>3 DEF LateInv
<1>9. CASE DeleteEncryptionPolicy
  <2>1. PICK d \in Fast : clock' = clock + d
    BY <1>9 DEF DeleteEncryptionPolicy, At
  <2>2. pc = "delete encryption"
    BY <1>9 DEF DeleteEncryptionPolicy, At
  <2>3. clock + d <= ActiveWait + 6 * F /\ clock + d <= Limit
    BY <1>1, <2>2, Adds DEF LateInv
  <2>4. ~(clock' > Limit)
    <3>1. clock + d \in Nat /\ Limit \in Nat
      BY <1>1, Sums
    <3>2. ~(clock + d > Limit)
      BY <2>3, <3>1
    <3> QED
      BY <2>1, <3>2
  <2>5. pc' \in {"delete group", "idle"}
    BY <1>9, <2>4 DEF DeleteEncryptionPolicy, Goto, Answers, Told
  <2> QED
    BY <2>1, <2>3, <2>5 DEF LateInv
<1>10. CASE DeleteGroup
  <2>1. PICK d \in Fast : clock' = clock + d
    BY <1>10 DEF DeleteGroup, At
  <2>2. pc = "delete group"
    BY <1>10 DEF DeleteGroup, At
  <2>3. clock + d <= Limit
    BY <1>1, <2>2, Adds DEF LateInv
  <2>4. ~(clock' > Limit)
    <3>1. clock + d \in Nat /\ Limit \in Nat
      BY <1>1, Sums
    <3>2. ~(clock + d > Limit)
      BY <2>3, <3>1
    <3> QED
      BY <2>1, <3>2
  <2>5. pc' = "idle"
    BY <1>10, <2>4 DEF DeleteGroup, Answers, Told
  <2> QED
    BY <2>5 DEF LateInv
<1>11. CASE Killed
  <2>1. pc' \in {"idle", "group", "encryption"} \/ (pc' = "find" /\ clock' = 0)
    BY <1>11, StartFacts DEF Killed, OverLimit, Told, PlaceInv, CreateSteps,
       DeleteSteps
  <2> QED
    BY <2>1 DEF LateInv
<1>12. CASE \E type \in {"Create", "Update", "Delete"}, r \in Revisions :
               Request(type, r)
  <2>1. pc' \in {"group", "encryption"} \/ (pc' = "find" /\ clock' = 0)
    BY <1>12, StartFacts DEF Request
  <2> QED
    BY <2>1 DEF LateInv
<1>13. CASE CollectionSettles \/ Upload \/ UNCHANGED vars
  BY <1>13 DEF CollectionSettles, Upload, vars, cfn, LateInv
<1> QED
  BY <1>2, <1>3, <1>4, <1>5, <1>6, <1>7, <1>8, <1>9, <1>10, <1>11, <1>12, <1>13
  DEF Next, Teardown, Idle

(* It is never over the limit, so it is never killed. *)
LEMMA NotLate ==
    ASSUME NEW F \in Nat, ActiveWait + 7 * F <= Limit,
           TypeOK, PlaceInv, LateInv(F), request.type = "Delete"
    PROVE  ~OverLimit
<1>1. clock \in Nat /\ deadline \in Nat /\ ActiveWait \in Nat /\ Limit \in Nat
  BY TimesAssumption DEF TypeOK
<1>2. CASE pc = "gone"
  <2>1. clock <= deadline + F /\ deadline <= ActiveWait + 2 * F
    BY <1>2 DEF LateInv
  <2>2. clock <= ActiveWait + 6 * F
    BY <1>1, <2>1
  <2> QED
    BY <1>1, <2>2 DEF OverLimit
<1>3. CASE pc \in DeleteSteps \ {"gone"}
  <2>1. \/ clock = 0 \/ clock <= F \/ clock <= ActiveWait + 3 * F
        \/ clock <= ActiveWait + 4 * F \/ clock <= ActiveWait + 5 * F
        \/ clock <= ActiveWait + 6 * F
    BY <1>3 DEF LateInv, DeleteSteps
  <2>2. clock <= ActiveWait + 6 * F
    BY <1>1, <2>1
  <2> QED
    BY <1>1, <2>2 DEF OverLimit
<1>4. pc \in DeleteSteps \cup {"idle"}
  BY DEF LateInv, PlaceInv, CreateSteps
<1>5. CASE pc = "idle"
  BY <1>5 DEF OverLimit
<1> QED
  BY <1>2, <1>3, <1>4, <1>5

LEMMA AnswerNext ==
    ASSUME PlaceInv, request.type = "Delete" => ~OverLimit, [Next]_vars,
           request.type = "Delete" => answer \in {"none", "ok"}
    PROVE  (request.type = "Delete" => answer \in {"none", "ok"})'
<1>1. CASE Provision
  <2>1. pc \in CreateSteps /\ request' = request
    BY <1>1, ProvisionPlace
  <2> QED
    BY <2>1 DEF PlaceInv
<1>2. CASE Teardown
  BY <1>2 DEF Teardown, FindCollection, DeleteCollection, AwaitGone, GoneExpires,
     DeleteAccessPolicy, DeleteNetworkPolicy, DeleteEncryptionPolicy,
     DeleteGroup, Goto, Answers, Told, Fixed
<1>3. CASE Killed
  BY <1>3, KilledFacts DEF Killed, PlaceInv, OverLimit
<1>4. CASE \E type \in {"Create", "Update", "Delete"}, r \in Revisions :
               Request(type, r)
  BY <1>4 DEF Request
<1>5. CASE CollectionSettles \/ Upload \/ UNCHANGED vars
  BY <1>5 DEF CollectionSettles, Upload, vars, cfn
<1> QED
  BY <1>1, <1>2, <1>3, <1>4, <1>5 DEF Next, Idle

(* A Delete always answers, in time and with success, if the wait and seven *)
(* calls fit in the limit: whatever fails, the removal of the stack is not  *)
(* held up.                                                                 *)
THEOREM Answered ==
    ASSUME NEW F \in Nat, \A d \in Fast : d <= F, ActiveWait + 7 * F <= Limit
    PROVE  Spec => []DeleteAnswers
<1> DEFINE Replied == request.type = "Delete" => answer \in {"none", "ok"}
<1> DEFINE J == LateInv(F) /\ Replied
<1>1. Init => J
  BY DEF Init, LateInv
<1>2. IInv /\ J /\ [Next]_vars => J'
  <2> SUFFICES ASSUME IInv, LateInv(F), Replied, [Next]_vars PROVE J'
    OBVIOUS
  <2>1. TypeOK /\ PlaceInv
    BY DEF IInv
  <2>2. request.type = "Delete" => ~OverLimit
    BY <2>1, NotLate
  <2>3. Replied'
    BY <2>1, <2>2, AnswerNext
  <2> QED
    BY <2>1, <2>3, LateNext
<1>3. IInv /\ J => DeleteAnswers
  <2> SUFFICES ASSUME IInv, LateInv(F), Replied PROVE DeleteAnswers
    OBVIOUS
  <2>1. TypeOK /\ PlaceInv
    BY DEF IInv
  <2>2. request.type = "Delete" => ~OverLimit
    BY <2>1, NotLate
  <2> QED
    BY <2>2 DEF DeleteAnswers
<1> QED
  BY <1>1, <1>2, <1>3, Inductive, PTL DEF Spec
=============================================================================
