-------------------------- MODULE TransfersProofs --------------------------
(* Theorems about Transfers, for every number of transfers, object keys,    *)
(* requests and idempotency keys. *)
EXTENDS Transfers, TLAPS

USE SentinelsAreDistinct DEF Absent

LEMMA InitType == Init => TypeOK
BY DEF Init, TypeOK, Request, Scopes, Absent, Steps, Decisions

LEMMA StepType ==
  ASSUME TypeOK, NEW r \in Requests, Progress(r) \/ Fails(r)
  PROVE  TypeOK'
<1> USE DEF TypeOK, Steps, Owning, InTx, After, Ended, Decisions, Refusals, Goto, Answer, rows
<1>0. /\ req[r] \in Request
      /\ Target(r) \in Transfers
      /\ Key(r) \in ObjectKeys \cup {NoKey}
      /\ req[r].op = "accept" => Key(r) \in ObjectKeys
      /\ Scope(r) \in Scopes
      /\ Decision(r) \in Decisions
  BY DEF Request, Target, Key, Scope, Scopes, Decision, DecisionOf
<1>1. CASE CreateIdempotencyRecord(r)
  BY <1>0, <1>1 DEF CreateIdempotencyRecord, OpenRecord
<1>2. CASE GetIdempotencyRecord(r)
  BY <1>0, <1>2 DEF GetIdempotencyRecord
<1>3. CASE VisibleTransfer(r)
  BY <1>0, <1>3 DEF VisibleTransfer
<1>4. CASE LockTransfer(r)
  BY <1>0, <1>4 DEF LockTransfer
<1>5. CASE CheckObjectKey(r)
  BY <1>0, <1>5 DEF CheckObjectKey, Rollback, EndTx
<1>6. CASE FetchPayload(r)
  BY <1>0, <1>6 DEF FetchPayload
<1>7. CASE PutPayload(r)
  BY <1>0, <1>7 DEF PutPayload
<1>8. CASE InsertAsset(r)
  BY <1>0, <1>8 DEF InsertAsset, Rollback, EndTx
<1>9. CASE Commit(r)
  BY <1>0, <1>9 DEF Commit, MarkTransfer, EndTx
<1>10. CASE DeleteSource(r)
  BY <1>0, <1>10 DEF DeleteSource
<1>11. CASE CompleteIdempotencyRecord(r)
  BY <1>0, <1>11 DEF CompleteIdempotencyRecord
<1>12. CASE Audit(r)
  BY <1>0, <1>12 DEF Audit
<1>13. CASE CreateFails(r)
  BY <1>0, <1>13 DEF CreateFails, OpenRecord
<1>14. CASE StatementFails(r)
  BY <1>0, <1>14 DEF StatementFails
<1>15. CASE TxFails(r)
  BY <1>0, <1>15 DEF TxFails, Rollback, EndTx
<1> QED
  BY <1>1, <1>2, <1>3, <1>4, <1>5, <1>6, <1>7, <1>8, <1>9, <1>10, <1>11, <1>12,
     <1>13, <1>14, <1>15 DEF Progress, Fails

-----------------------------------------------------------------------------
(* The inductive invariant, action by action: first the conjuncts whose     *)
(* variables the action leaves alone, then those that it can disturb.       *)

LEMMA CreateIdempotencyRecordInv ==
  ASSUME IInv, TypeOK', NEW r \in Requests, CreateIdempotencyRecord(r)
  PROVE  IInv'
<1> USE DEF IInv, CreateIdempotencyRecord, OpenRecord, TypeOK, Steps, Owning, InTx, After, Ended, Decisions, Refusals,
    Goto, Answer, rows, Request, Scopes, Target, Key, Scope, Decision, DecisionOf
<1>1. AcceptedOnce' /\ PayloadsStored' /\ AnswersAreTrue' /\
      AuditsAreTrue'
  BY DEF AcceptedOnce, PayloadsStored, AnswersAreTrue, AuditsAreTrue
<1>2. KeyAdmitsOne'
  BY DEF KeyAdmitsOne, OwnRecord
<1>3. LockDiscipline'
  BY DEF LockDiscipline
<1>4. AcceptSteps'
  BY DEF AcceptSteps
<1>5. CopiedFirst'
  BY DEF CopiedFirst
<1>6. DecidedAfterCommit'
  BY DEF DecidedAfterCommit
<1>7. OwnRecord'
  <2> SUFFICES ASSUME NEW q \in Requests, pc'[q] \in Owning
               PROVE  idem'[Scope(q)] # Absent /\ idem'[Scope(q)].hash = Key(q)
    BY DEF OwnRecord
  <2>1. Scope(q) \in Scopes /\ Scope(r) \in Scopes
    OBVIOUS
  <2>2. OpenRecord(q) # Absent /\ OpenRecord(q).hash = Key(q)
    <3>1. OpenRecord(q).response # Absent.response
      OBVIOUS
    <3> QED  BY <3>1
  <2>3. CASE q = r /\ idem[Scope(r)] = Absent
    <3>1. idem'[Scope(r)] = OpenRecord(r)
      <4> HIDE DEF Scope, Scopes, OpenRecord, Absent
      <4> QED  BY <2>1, <2>3
    <3> QED  BY <2>2, <2>3, <3>1
  <2>4. CASE q = r /\ idem[Scope(r)] # Absent
    BY <2>4
  <2>5. CASE q # r
    <3>1. pc[q] \in Owning
      BY <2>5
    <3>2. idem[Scope(q)] # Absent /\ idem[Scope(q)].hash = Key(q)
      BY <3>1 DEF OwnRecord
    <3>3. idem'[Scope(q)] = idem[Scope(q)]
      <4> HIDE DEF Scope, Scopes, OpenRecord, Absent
      <4> QED  BY <2>1, <3>2
    <3> QED  BY <3>2, <3>3
  <2> QED  BY <2>3, <2>4, <2>5
<1>8. RecordsAreTrue'
  BY DEF RecordsAreTrue
<1>9. AnsweredOnce'
  BY DEF AnsweredOnce
<1> QED
  BY <1>1, <1>2, <1>3, <1>4, <1>5, <1>6, <1>7, <1>8, <1>9

LEMMA GetIdempotencyRecordInv ==
  ASSUME IInv, TypeOK', NEW r \in Requests, GetIdempotencyRecord(r)
  PROVE  IInv'
<1> USE DEF IInv, GetIdempotencyRecord, TypeOK, Steps, Owning, InTx, After, Ended, Decisions, Refusals,
    Goto, Answer, rows, Request, Scopes, Target, Key, Scope, Decision, DecisionOf
<1>1. AcceptedOnce' /\ PayloadsStored' /\ AuditsAreTrue' /\
      RecordsAreTrue'
  BY DEF AcceptedOnce, PayloadsStored, AuditsAreTrue, RecordsAreTrue
<1>2. AnswersAreTrue'
  <2>1. Scope(r) \in Scopes /\ Scope(r).op = req[r].op /\ Scope(r).transfer = Target(r)
    OBVIOUS
  <2>2. CASE answer'[r] \in Decisions
    <3>1. /\ answer'[r] = idem[Scope(r)].response
          /\ idem[Scope(r)].hash = Key(r)
      BY <2>2
    <3>2. /\ answer'[r] = DecisionOf(req[r].op)
          /\ status[Target(r)] = answer'[r]
          /\ acceptedAs[Target(r)] = Key(r)
      <4> HIDE DEF Scope, Scopes, Target, Key, DecisionOf
      <4> QED  BY <2>1, <2>2, <3>1 DEF RecordsAreTrue
    <3> QED  BY <2>2, <3>2 DEF AnswersAreTrue
  <2>3. CASE answer'[r] \notin Decisions
    <3>1. answer'[r] \notin {"already_resolved", "expired"}
      <4> HIDE DEF Scope, Scopes
      <4>1. \/ idem[Scope(r)] = Absent
            \/ idem[Scope(r)].response \in {"open"} \cup Decisions
        BY <2>1
      <4>2. answer'[r] \in {"failed", "key_reused", "in_progress"}
        BY <2>3, <4>1
      <4> QED  BY <4>2
    <3> QED  BY <2>3, <3>1 DEF AnswersAreTrue
  <2> QED  BY <2>2, <2>3
<1>3. KeyAdmitsOne'
  BY DEF KeyAdmitsOne
<1>4. LockDiscipline'
  BY DEF LockDiscipline
<1>5. AcceptSteps'
  BY DEF AcceptSteps
<1>6. CopiedFirst'
  BY DEF CopiedFirst
<1>7. DecidedAfterCommit'
  BY DEF DecidedAfterCommit
<1>8. OwnRecord'
  BY DEF OwnRecord
<1>9. AnsweredOnce'
  BY DEF AnsweredOnce
<1> QED
  BY <1>1, <1>2, <1>3, <1>4, <1>5, <1>6, <1>7, <1>8, <1>9

LEMMA VisibleTransferInv ==
  ASSUME IInv, TypeOK', NEW r \in Requests, VisibleTransfer(r)
  PROVE  IInv'
<1> USE DEF IInv, VisibleTransfer, TypeOK, Steps, Owning, InTx, After, Ended, Decisions, Refusals,
    Goto, Answer, rows, Request, Scopes, Target, Key, Scope, Decision, DecisionOf
<1>1. AcceptedOnce' /\ PayloadsStored' /\ AuditsAreTrue' /\
      RecordsAreTrue'
  BY DEF AcceptedOnce, PayloadsStored, AuditsAreTrue, RecordsAreTrue
<1>2. AnswersAreTrue'
  BY DEF AnswersAreTrue
<1>3. KeyAdmitsOne'
  BY DEF KeyAdmitsOne
<1>4. LockDiscipline'
  BY DEF LockDiscipline
<1>5. AcceptSteps'
  BY DEF AcceptSteps
<1>6. CopiedFirst'
  BY DEF CopiedFirst
<1>7. DecidedAfterCommit'
  BY DEF DecidedAfterCommit
<1>8. OwnRecord'
  BY DEF OwnRecord
<1>9. AnsweredOnce'
  BY DEF AnsweredOnce
<1> QED
  BY <1>1, <1>2, <1>3, <1>4, <1>5, <1>6, <1>7, <1>8, <1>9

LEMMA LockTransferInv ==
  ASSUME IInv, TypeOK', NEW r \in Requests, LockTransfer(r)
  PROVE  IInv'
<1> USE DEF IInv, LockTransfer, TypeOK, Steps, Owning, InTx, After, Ended, Decisions, Refusals,
    Goto, Answer, rows, Request, Scopes, Target, Key, Scope, Decision, DecisionOf
<1>1. AcceptedOnce' /\ PayloadsStored' /\ AuditsAreTrue' /\
      RecordsAreTrue'
  BY DEF AcceptedOnce, PayloadsStored, AuditsAreTrue, RecordsAreTrue
<1>2. AnswersAreTrue'
  BY DEF AnswersAreTrue
<1>3. KeyAdmitsOne'
  BY DEF KeyAdmitsOne
<1>4. LockDiscipline'
  BY DEF LockDiscipline
<1>5. AcceptSteps'
  BY DEF AcceptSteps
<1>6. CopiedFirst'
  BY DEF CopiedFirst
<1>7. DecidedAfterCommit'
  BY DEF DecidedAfterCommit
<1>8. OwnRecord'
  BY DEF OwnRecord
<1>9. AnsweredOnce'
  BY DEF AnsweredOnce
<1> QED
  BY <1>1, <1>2, <1>3, <1>4, <1>5, <1>6, <1>7, <1>8, <1>9

LEMMA CheckObjectKeyInv ==
  ASSUME IInv, TypeOK', NEW r \in Requests, CheckObjectKey(r)
  PROVE  IInv'
<1> USE DEF IInv, CheckObjectKey, Rollback, EndTx, TypeOK, Steps, Owning, InTx, After, Ended, Decisions, Refusals,
    Goto, Answer, rows, Request, Scopes, Target, Key, Scope, Decision, DecisionOf
<1>1. AcceptedOnce' /\ PayloadsStored' /\ AuditsAreTrue' /\
      RecordsAreTrue'
  BY DEF AcceptedOnce, PayloadsStored, AuditsAreTrue, RecordsAreTrue
<1>2. AnswersAreTrue'
  BY DEF AnswersAreTrue
<1>3. KeyAdmitsOne'
  BY DEF KeyAdmitsOne
<1>4. LockDiscipline'
  BY DEF LockDiscipline
<1>5. AcceptSteps'
  BY DEF AcceptSteps
<1>6. CopiedFirst'
  BY DEF CopiedFirst
<1>7. DecidedAfterCommit'
  BY DEF DecidedAfterCommit
<1>8. OwnRecord'
  BY DEF OwnRecord
<1>9. AnsweredOnce'
  BY DEF AnsweredOnce
<1> QED
  BY <1>1, <1>2, <1>3, <1>4, <1>5, <1>6, <1>7, <1>8, <1>9

LEMMA FetchPayloadInv ==
  ASSUME IInv, TypeOK', NEW r \in Requests, FetchPayload(r)
  PROVE  IInv'
<1> USE DEF IInv, FetchPayload, TypeOK, Steps, Owning, InTx, After, Ended, Decisions, Refusals,
    Goto, Answer, rows, Request, Scopes, Target, Key, Scope, Decision, DecisionOf
<1>1. AcceptedOnce' /\ PayloadsStored' /\ AnswersAreTrue' /\
      AuditsAreTrue' /\ RecordsAreTrue'
  BY DEF AcceptedOnce, PayloadsStored, AnswersAreTrue, AuditsAreTrue,
     RecordsAreTrue
<1>2. KeyAdmitsOne'
  BY DEF KeyAdmitsOne
<1>3. LockDiscipline'
  BY DEF LockDiscipline
<1>4. AcceptSteps'
  BY DEF AcceptSteps
<1>5. CopiedFirst'
  BY DEF CopiedFirst
<1>6. DecidedAfterCommit'
  BY DEF DecidedAfterCommit
<1>7. OwnRecord'
  BY DEF OwnRecord
<1>8. AnsweredOnce'
  BY DEF AnsweredOnce
<1> QED
  BY <1>1, <1>2, <1>3, <1>4, <1>5, <1>6, <1>7, <1>8

LEMMA PutPayloadInv ==
  ASSUME IInv, TypeOK', NEW r \in Requests, PutPayload(r)
  PROVE  IInv'
<1> USE DEF IInv, PutPayload, TypeOK, Steps, Owning, InTx, After, Ended, Decisions, Refusals,
    Goto, Answer, rows, Request, Scopes, Target, Key, Scope, Decision, DecisionOf
<1>1. AcceptedOnce' /\ AnswersAreTrue' /\ AuditsAreTrue' /\
      RecordsAreTrue'
  BY DEF AcceptedOnce, AnswersAreTrue, AuditsAreTrue, RecordsAreTrue
<1>2. PayloadsStored'
  BY DEF PayloadsStored
<1>3. KeyAdmitsOne'
  BY DEF KeyAdmitsOne
<1>4. LockDiscipline'
  BY DEF LockDiscipline
<1>5. AcceptSteps'
  BY DEF AcceptSteps
<1>6. CopiedFirst'
  BY DEF CopiedFirst
<1>7. DecidedAfterCommit'
  BY DEF DecidedAfterCommit
<1>8. OwnRecord'
  BY DEF OwnRecord
<1>9. AnsweredOnce'
  BY DEF AnsweredOnce
<1> QED
  BY <1>1, <1>2, <1>3, <1>4, <1>5, <1>6, <1>7, <1>8, <1>9

LEMMA InsertAssetInv ==
  ASSUME IInv, TypeOK', NEW r \in Requests, InsertAsset(r)
  PROVE  IInv'
<1> USE DEF IInv, InsertAsset, Rollback, EndTx, TypeOK, Steps, Owning, InTx, After, Ended, Decisions, Refusals,
    Goto, Answer, rows, Request, Scopes, Target, Key, Scope, Decision, DecisionOf
<1>1. AcceptedOnce' /\ PayloadsStored' /\ AuditsAreTrue' /\
      RecordsAreTrue'
  BY DEF AcceptedOnce, PayloadsStored, AuditsAreTrue, RecordsAreTrue
<1>2. AnswersAreTrue'
  BY DEF AnswersAreTrue
<1>3. KeyAdmitsOne'
  BY DEF KeyAdmitsOne
<1>4. LockDiscipline'
  BY DEF LockDiscipline, AcceptSteps
<1>5. AcceptSteps'
  BY DEF AcceptSteps
<1>6. CopiedFirst'
  BY DEF CopiedFirst
<1>7. DecidedAfterCommit'
  BY DEF DecidedAfterCommit
<1>8. OwnRecord'
  BY DEF OwnRecord
<1>9. AnsweredOnce'
  BY DEF AnsweredOnce
<1> QED
  BY <1>1, <1>2, <1>3, <1>4, <1>5, <1>6, <1>7, <1>8, <1>9

LEMMA CommitInv ==
  ASSUME IInv, TypeOK', NEW r \in Requests, Commit(r)
  PROVE  IInv'
<1> USE DEF IInv, Commit, MarkTransfer, EndTx, TypeOK, Steps, Owning, InTx, After, Ended, Decisions, Refusals,
    Goto, Answer, rows, Request, Scopes, Target, Key, Scope, Decision, DecisionOf
<1>1. AcceptedOnce'
  BY DEF AcceptedOnce, LockDiscipline
<1>2. PayloadsStored'
  BY DEF PayloadsStored, LockDiscipline, CopiedFirst
<1>3. AnswersAreTrue'
  BY DEF AnswersAreTrue
<1>4. AuditsAreTrue'
  BY DEF AuditsAreTrue
<1>5. KeyAdmitsOne'
  BY DEF KeyAdmitsOne
<1>6. LockDiscipline'
  BY DEF LockDiscipline
<1>7. AcceptSteps'
  BY DEF AcceptSteps
<1>8. CopiedFirst'
  BY DEF CopiedFirst
<1>9. DecidedAfterCommit'
  BY DEF DecidedAfterCommit, AcceptedOnce
<1>10. OwnRecord'
  BY DEF OwnRecord
<1>11. RecordsAreTrue'
  BY DEF RecordsAreTrue
<1>12. AnsweredOnce'
  BY DEF AnsweredOnce
<1> QED
  BY <1>1, <1>2, <1>3, <1>4, <1>5, <1>6, <1>7, <1>8, <1>9, <1>10, <1>11, <1>12

LEMMA DeleteSourceInv ==
  ASSUME IInv, TypeOK', NEW r \in Requests, DeleteSource(r)
  PROVE  IInv'
<1> USE DEF IInv, DeleteSource, TypeOK, Steps, Owning, InTx, After, Ended, Decisions, Refusals,
    Goto, Answer, rows, Request, Scopes, Target, Key, Scope, Decision, DecisionOf
<1>1. AcceptedOnce' /\ AnswersAreTrue' /\ AuditsAreTrue' /\
      RecordsAreTrue'
  BY DEF AcceptedOnce, AnswersAreTrue, AuditsAreTrue, RecordsAreTrue
<1>2. PayloadsStored'
  BY DEF PayloadsStored, DecidedAfterCommit
<1>3. KeyAdmitsOne'
  BY DEF KeyAdmitsOne
<1>4. LockDiscipline'
  BY DEF LockDiscipline
<1>5. AcceptSteps'
  BY DEF AcceptSteps
<1>6. CopiedFirst'
  BY DEF CopiedFirst
<1>7. DecidedAfterCommit'
  BY DEF DecidedAfterCommit
<1>8. OwnRecord'
  BY DEF OwnRecord
<1>9. AnsweredOnce'
  BY DEF AnsweredOnce
<1> QED
  BY <1>1, <1>2, <1>3, <1>4, <1>5, <1>6, <1>7, <1>8, <1>9

LEMMA CompleteIdempotencyRecordInv ==
  ASSUME IInv, TypeOK', NEW r \in Requests, CompleteIdempotencyRecord(r)
  PROVE  IInv'
<1> USE DEF IInv, CompleteIdempotencyRecord, TypeOK, Steps, Owning, InTx, After, Ended, Decisions, Refusals,
    Goto, Answer, rows, Request, Scopes, Target, Key, Scope, Decision, DecisionOf
<1>1. AcceptedOnce' /\ PayloadsStored' /\ AnswersAreTrue' /\
      AuditsAreTrue'
  BY DEF AcceptedOnce, PayloadsStored, AnswersAreTrue, AuditsAreTrue
<1>2. KeyAdmitsOne'
  BY DEF KeyAdmitsOne
<1>3. LockDiscipline'
  BY DEF LockDiscipline
<1>4. AcceptSteps'
  BY DEF AcceptSteps
<1>5. CopiedFirst'
  BY DEF CopiedFirst
<1>6. DecidedAfterCommit'
  BY DEF DecidedAfterCommit
<1>7. OwnRecord'
  BY DEF OwnRecord
<1>8. RecordsAreTrue'
  BY DEF RecordsAreTrue, DecidedAfterCommit, OwnRecord
<1>9. AnsweredOnce'
  BY DEF AnsweredOnce
<1> QED
  BY <1>1, <1>2, <1>3, <1>4, <1>5, <1>6, <1>7, <1>8, <1>9

LEMMA AuditInv ==
  ASSUME IInv, TypeOK', NEW r \in Requests, Audit(r)
  PROVE  IInv'
<1> USE DEF IInv, Audit, TypeOK, Steps, Owning, InTx, After, Ended, Decisions, Refusals,
    Goto, Answer, rows, Request, Scopes, Target, Key, Scope, Decision, DecisionOf
<1>1. AcceptedOnce' /\ PayloadsStored' /\ RecordsAreTrue'
  BY DEF AcceptedOnce, PayloadsStored, RecordsAreTrue
<1>2. AnswersAreTrue'
  BY DEF AnswersAreTrue, DecidedAfterCommit
<1>3. AuditsAreTrue'
  BY DEF AuditsAreTrue, DecidedAfterCommit
<1>4. KeyAdmitsOne'
  BY DEF KeyAdmitsOne
<1>5. LockDiscipline'
  BY DEF LockDiscipline
<1>6. AcceptSteps'
  BY DEF AcceptSteps
<1>7. CopiedFirst'
  BY DEF CopiedFirst
<1>8. DecidedAfterCommit'
  BY DEF DecidedAfterCommit
<1>9. OwnRecord'
  BY DEF OwnRecord
<1>10. AnsweredOnce'
  BY DEF AnsweredOnce
<1> QED
  BY <1>1, <1>2, <1>3, <1>4, <1>5, <1>6, <1>7, <1>8, <1>9, <1>10

LEMMA CreateFailsInv ==
  ASSUME IInv, TypeOK', NEW r \in Requests, CreateFails(r)
  PROVE  IInv'
<1> USE DEF IInv, CreateFails, OpenRecord, TypeOK, Steps, Owning, InTx, After, Ended, Decisions, Refusals,
    Goto, Answer, rows, Request, Scopes, Target, Key, Scope, Decision, DecisionOf
<1>1. AcceptedOnce' /\ PayloadsStored' /\ AuditsAreTrue'
  BY DEF AcceptedOnce, PayloadsStored, AuditsAreTrue
<1>2. AnswersAreTrue'
  BY DEF AnswersAreTrue
<1>3. KeyAdmitsOne'
  BY DEF KeyAdmitsOne
<1>4. LockDiscipline'
  BY DEF LockDiscipline
<1>5. AcceptSteps'
  BY DEF AcceptSteps
<1>6. CopiedFirst'
  BY DEF CopiedFirst
<1>7. DecidedAfterCommit'
  BY DEF DecidedAfterCommit
<1>8. OwnRecord'
  BY DEF OwnRecord
<1>9. RecordsAreTrue'
  BY DEF RecordsAreTrue
<1>10. AnsweredOnce'
  BY DEF AnsweredOnce
<1> QED
  BY <1>1, <1>2, <1>3, <1>4, <1>5, <1>6, <1>7, <1>8, <1>9, <1>10

LEMMA StatementFailsInv ==
  ASSUME IInv, TypeOK', NEW r \in Requests, StatementFails(r)
  PROVE  IInv'
<1> USE DEF IInv, StatementFails, TypeOK, Steps, Owning, InTx, After, Ended, Decisions, Refusals,
    Goto, Answer, rows, Request, Scopes, Target, Key, Scope, Decision, DecisionOf
<1>1. AcceptedOnce' /\ PayloadsStored' /\ AuditsAreTrue' /\
      RecordsAreTrue'
  BY DEF AcceptedOnce, PayloadsStored, AuditsAreTrue, RecordsAreTrue
<1>2. AnswersAreTrue'
  BY DEF AnswersAreTrue
<1>3. KeyAdmitsOne'
  BY DEF KeyAdmitsOne
<1>4. LockDiscipline'
  BY DEF LockDiscipline
<1>5. AcceptSteps'
  BY DEF AcceptSteps
<1>6. CopiedFirst'
  BY DEF CopiedFirst
<1>7. DecidedAfterCommit'
  BY DEF DecidedAfterCommit
<1>8. OwnRecord'
  BY DEF OwnRecord
<1>9. AnsweredOnce'
  BY DEF AnsweredOnce
<1> QED
  BY <1>1, <1>2, <1>3, <1>4, <1>5, <1>6, <1>7, <1>8, <1>9

LEMMA TxFailsInv ==
  ASSUME IInv, TypeOK', NEW r \in Requests, TxFails(r)
  PROVE  IInv'
<1> USE DEF IInv, TxFails, Rollback, EndTx, TypeOK, Steps, Owning, InTx, After, Ended, Decisions, Refusals,
    Goto, Answer, rows, Request, Scopes, Target, Key, Scope, Decision, DecisionOf
<1>1. AcceptedOnce' /\ AuditsAreTrue' /\ RecordsAreTrue'
  BY DEF AcceptedOnce, AuditsAreTrue, RecordsAreTrue
<1>2. PayloadsStored'
  BY DEF PayloadsStored
<1>3. AnswersAreTrue'
  BY DEF AnswersAreTrue
<1>4. KeyAdmitsOne'
  BY DEF KeyAdmitsOne
<1>5. LockDiscipline'
  BY DEF LockDiscipline
<1>6. AcceptSteps'
  BY DEF AcceptSteps
<1>7. CopiedFirst'
  BY DEF CopiedFirst
<1>8. DecidedAfterCommit'
  BY DEF DecidedAfterCommit
<1>9. OwnRecord'
  BY DEF OwnRecord
<1>10. AnsweredOnce'
  BY DEF AnsweredOnce
<1> QED
  BY <1>1, <1>2, <1>3, <1>4, <1>5, <1>6, <1>7, <1>8, <1>9, <1>10

LEMMA CrashInv ==
  ASSUME IInv, TypeOK', Crash
  PROVE  IInv'
<1> USE DEF IInv, Crash, TypeOK, Steps, Owning, InTx, After, Ended, Decisions, Refusals,
    Goto, Answer, rows, Request, Scopes, Target, Key, Scope, Decision, DecisionOf
<1>1. AcceptedOnce' /\ PayloadsStored' /\ AnswersAreTrue' /\
      AuditsAreTrue' /\ RecordsAreTrue'
  BY DEF AcceptedOnce, PayloadsStored, AnswersAreTrue, AuditsAreTrue,
     RecordsAreTrue
<1>2. KeyAdmitsOne'
  BY DEF KeyAdmitsOne
<1>3. LockDiscipline'
  BY DEF LockDiscipline
<1>4. AcceptSteps'
  BY DEF AcceptSteps
<1>5. CopiedFirst'
  BY DEF CopiedFirst
<1>6. DecidedAfterCommit'
  BY DEF DecidedAfterCommit
<1>7. OwnRecord'
  BY DEF OwnRecord
<1>8. AnsweredOnce'
  BY DEF AnsweredOnce
<1> QED
  BY <1>1, <1>2, <1>3, <1>4, <1>5, <1>6, <1>7, <1>8

LEMMA ElapseInv ==
  ASSUME IInv, TypeOK', NEW t \in Transfers, Elapse(t)
  PROVE  IInv'
<1> USE DEF IInv, Elapse, TypeOK, Steps, Owning, InTx, After, Ended, Decisions, Refusals,
    Goto, Answer, rows, Request, Scopes, Target, Key, Scope, Decision, DecisionOf
<1>1. AcceptedOnce' /\ PayloadsStored' /\ AuditsAreTrue' /\
      KeyAdmitsOne' /\ LockDiscipline' /\ AcceptSteps' /\ CopiedFirst' /\
      DecidedAfterCommit' /\ OwnRecord' /\ RecordsAreTrue'
  BY DEF AcceptedOnce, PayloadsStored, AuditsAreTrue, KeyAdmitsOne,
     LockDiscipline, AcceptSteps, CopiedFirst, DecidedAfterCommit, OwnRecord,
     RecordsAreTrue
<1>2. AnswersAreTrue'
  BY DEF AnswersAreTrue
<1>3. AnsweredOnce'
  BY DEF AnsweredOnce
<1> QED
  BY <1>1, <1>2, <1>3

LEMMA ExpirePendingTransfersInv ==
  ASSUME IInv, TypeOK', NEW overdue \in SUBSET Transfers, ExpirePendingTransfers(overdue)
  PROVE  IInv'
<1> USE DEF IInv, ExpirePendingTransfers, TypeOK, Steps, Owning, InTx, After, Ended, Decisions, Refusals,
    Goto, Answer, rows, Request, Scopes, Target, Key, Scope, Decision, DecisionOf
<1>1. KeyAdmitsOne' /\ AcceptSteps' /\ CopiedFirst' /\ OwnRecord'
  BY DEF KeyAdmitsOne, AcceptSteps, CopiedFirst, OwnRecord
<1>2. AcceptedOnce'
  BY DEF AcceptedOnce
<1>3. PayloadsStored'
  BY DEF PayloadsStored
<1>4. AnswersAreTrue'
  BY DEF AnswersAreTrue
<1>5. AuditsAreTrue'
  BY DEF AuditsAreTrue
<1>6. LockDiscipline'
  BY DEF LockDiscipline
<1>7. DecidedAfterCommit'
  BY DEF DecidedAfterCommit
<1>8. RecordsAreTrue'
  BY DEF RecordsAreTrue
<1>9. AnsweredOnce'
  BY DEF AnsweredOnce
<1> QED
  BY <1>1, <1>2, <1>3, <1>4, <1>5, <1>6, <1>7, <1>8, <1>9

LEMMA LapseInv ==
  ASSUME IInv, TypeOK', NEW s \in Scopes, Lapse(s)
  PROVE  IInv'
<1> USE DEF IInv, Lapse, TypeOK, Steps, Owning, InTx, After, Ended, Decisions, Refusals,
    Goto, Answer, rows, Request, Scopes, Target, Key, Scope, Decision, DecisionOf
<1>1. AcceptedOnce' /\ PayloadsStored' /\ AnswersAreTrue' /\
      AuditsAreTrue' /\ KeyAdmitsOne' /\ LockDiscipline' /\ AcceptSteps' /\
      CopiedFirst' /\ DecidedAfterCommit'
  BY DEF AcceptedOnce, PayloadsStored, AnswersAreTrue, AuditsAreTrue,
     KeyAdmitsOne, LockDiscipline, AcceptSteps, CopiedFirst,
     DecidedAfterCommit
<1>2. OwnRecord'
  BY DEF OwnRecord
<1>3. RecordsAreTrue'
  BY DEF RecordsAreTrue
<1>4. AnsweredOnce'
  BY DEF AnsweredOnce
<1> QED
  BY <1>1, <1>2, <1>3, <1>4

LEMMA UploadAssetInv ==
  ASSUME IInv, TypeOK', NEW k \in ObjectKeys, UploadAsset(k)
  PROVE  IInv'
<1> USE DEF IInv, UploadAsset, TypeOK, Steps, Owning, InTx, After, Ended, Decisions, Refusals,
    Goto, Answer, rows, Request, Scopes, Target, Key, Scope, Decision, DecisionOf
<1>1. AnswersAreTrue' /\ AuditsAreTrue' /\ KeyAdmitsOne' /\ AcceptSteps' /\
      CopiedFirst' /\ DecidedAfterCommit' /\ OwnRecord' /\
      RecordsAreTrue'
  BY DEF AnswersAreTrue, AuditsAreTrue, KeyAdmitsOne, AcceptSteps, CopiedFirst,
     DecidedAfterCommit, OwnRecord, RecordsAreTrue
<1>2. AcceptedOnce'
  BY DEF AcceptedOnce
<1>3. PayloadsStored'
  BY DEF PayloadsStored
<1>4. LockDiscipline'
  BY DEF LockDiscipline
<1>5. AnsweredOnce'
  BY DEF AnsweredOnce
<1> QED
  BY <1>1, <1>2, <1>3, <1>4, <1>5

LEMMA OverwriteAssetInv ==
  ASSUME IInv, TypeOK', NEW k \in ObjectKeys, OverwriteAsset(k)
  PROVE  IInv'
<1> USE DEF IInv, OverwriteAsset, TypeOK, Steps, Owning, InTx, After, Ended, Decisions, Refusals,
    Goto, Answer, rows, Request, Scopes, Target, Key, Scope, Decision, DecisionOf
<1>1. AnswersAreTrue' /\ AuditsAreTrue' /\ KeyAdmitsOne' /\ AcceptSteps' /\
      DecidedAfterCommit' /\ OwnRecord' /\ RecordsAreTrue'
  BY DEF AnswersAreTrue, AuditsAreTrue, KeyAdmitsOne, AcceptSteps,
     DecidedAfterCommit, OwnRecord, RecordsAreTrue
<1>2. AcceptedOnce'
  BY DEF AcceptedOnce
<1>3. PayloadsStored'
  BY DEF PayloadsStored, AcceptedOnce
<1>4. LockDiscipline'
  BY DEF LockDiscipline
<1>5. CopiedFirst'
  BY DEF CopiedFirst, LockDiscipline, AcceptedOnce
<1>6. AnsweredOnce'
  BY DEF AnsweredOnce
<1> QED
  BY <1>1, <1>2, <1>3, <1>4, <1>5, <1>6

LEMMA DeleteBrainInv ==
  ASSUME IInv, TypeOK', DeleteBrain
  PROVE  IInv'
<1> USE DEF IInv, DeleteBrain, TypeOK, Steps, Owning, InTx, After, Ended, Decisions, Refusals,
    Goto, Answer, rows, Request, Scopes, Target, Key, Scope, Decision, DecisionOf
<1>1. AnswersAreTrue' /\ AuditsAreTrue' /\ KeyAdmitsOne' /\ AcceptSteps' /\
      CopiedFirst' /\ DecidedAfterCommit' /\ OwnRecord' /\
      RecordsAreTrue' /\ AnsweredOnce'
  BY DEF AnswersAreTrue, AuditsAreTrue, KeyAdmitsOne, AcceptSteps, CopiedFirst,
     DecidedAfterCommit, OwnRecord, RecordsAreTrue, AnsweredOnce
<1>2. AcceptedOnce'
  BY DEF AcceptedOnce
<1>3. PayloadsStored'
  BY DEF PayloadsStored
<1>4. LockDiscipline'
  <2>1. \A r \in Requests : pc[r] \notin InTx
    BY DEF LockDiscipline
  <2> QED  BY <2>1 DEF LockDiscipline
<1> QED
  BY <1>1, <1>2, <1>3, <1>4

LEMMA DeleteAssetInv ==
  ASSUME IInv, TypeOK', NEW k \in ObjectKeys, DeleteAsset(k)
  PROVE  IInv'
<1> USE DEF IInv, DeleteAsset, TypeOK, Steps, Owning, InTx, After, Ended, Decisions, Refusals,
    Goto, Answer, rows, Request, Scopes, Target, Key, Scope, Decision, DecisionOf
<1>1. AnswersAreTrue' /\ AuditsAreTrue' /\ KeyAdmitsOne' /\ AcceptSteps' /\
      CopiedFirst' /\ DecidedAfterCommit' /\ OwnRecord' /\
      RecordsAreTrue'
  BY DEF AnswersAreTrue, AuditsAreTrue, KeyAdmitsOne, AcceptSteps, CopiedFirst,
     DecidedAfterCommit, OwnRecord, RecordsAreTrue
<1>2. AcceptedOnce'
  BY DEF AcceptedOnce
<1>3. PayloadsStored'
  BY DEF PayloadsStored
<1>4. LockDiscipline'
  BY DEF LockDiscipline
<1>5. AnsweredOnce'
  BY DEF AnsweredOnce
<1> QED
  BY <1>1, <1>2, <1>3, <1>4, <1>5

-----------------------------------------------------------------------------
LEMMA EnvironmentType == TypeOK /\ Environment => TypeOK'
<1> SUFFICES ASSUME TypeOK, Environment PROVE TypeOK'
  OBVIOUS
<1> USE DEF TypeOK, Steps, Owning, InTx, After, Ended, Decisions, rows
<1>1. CASE Crash
  BY <1>1 DEF Crash
<1>2. CASE \E t \in Transfers : Elapse(t)
  BY <1>2 DEF Elapse
<1>3. CASE \E overdue \in SUBSET Transfers : ExpirePendingTransfers(overdue)
  BY <1>3 DEF ExpirePendingTransfers
<1>4. CASE \E s \in Scopes : Lapse(s)
  BY <1>4 DEF Lapse
<1>5. CASE \E k \in ObjectKeys : UploadAsset(k) \/ OverwriteAsset(k) \/ DeleteAsset(k)
  BY <1>5 DEF UploadAsset, OverwriteAsset, DeleteAsset
<1>6. CASE DeleteBrain
  BY <1>6 DEF DeleteBrain
<1> QED
  BY <1>1, <1>2, <1>3, <1>4, <1>5, <1>6 DEF Environment

LEMMA NextType == TypeOK /\ [Next]_vars => TypeOK'
<1>1. ASSUME TypeOK, UNCHANGED vars PROVE TypeOK'
  BY <1>1 DEF vars, rows, TypeOK
<1> QED
  BY <1>1, StepType, EnvironmentType DEF Next

(* Every variable of a reachable state has its type.                        *)
THEOREM TypeCorrect == Spec => []TypeOK
<1> QED
  BY InitType, NextType, PTL DEF Spec

LEMMA InitInv == Init => IInv
<1> SUFFICES ASSUME Init PROVE IInv
  OBVIOUS
<1> USE DEF Init
<1>1. TypeOK
  BY InitType
<1>2. AcceptedOnce /\ PayloadsStored /\ AuditsAreTrue
  BY DEF AcceptedOnce, PayloadsStored, AuditsAreTrue
<1>3. AnswersAreTrue
  BY DEF AnswersAreTrue, Decisions
<1>4. LockDiscipline
  BY DEF LockDiscipline, InTx
<1>5. KeyAdmitsOne /\ AcceptSteps /\ CopiedFirst /\ DecidedAfterCommit /\ AnsweredOnce
      /\ OwnRecord
  BY DEF KeyAdmitsOne, AcceptSteps, CopiedFirst, DecidedAfterCommit, AnsweredOnce, OwnRecord,
         Owning, InTx, After
<1>6. RecordsAreTrue
  BY DEF RecordsAreTrue, Absent, Decisions
<1> QED
  BY <1>1, <1>2, <1>3, <1>4, <1>5, <1>6 DEF IInv

LEMMA StutterInv == IInv /\ UNCHANGED vars => IInv'
BY DEF vars, rows, IInv, TypeOK, AcceptedOnce, PayloadsStored, AnswersAreTrue, AuditsAreTrue,
       KeyAdmitsOne, LockDiscipline, AcceptSteps, CopiedFirst, DecidedAfterCommit,
       AnsweredOnce, OwnRecord, RecordsAreTrue, Target, Key, Scope, Decision

LEMMA NextInv == IInv /\ [Next]_vars => IInv'
<1> SUFFICES ASSUME IInv, Next PROVE IInv'
  BY StutterInv
<1>1. TypeOK'
  BY NextType DEF IInv
<1>2. ASSUME NEW r \in Requests, Progress(r) PROVE IInv'
  BY <1>1, <1>2, CreateIdempotencyRecordInv, GetIdempotencyRecordInv, VisibleTransferInv,
     LockTransferInv, CheckObjectKeyInv, FetchPayloadInv, PutPayloadInv, InsertAssetInv,
     CommitInv, DeleteSourceInv, CompleteIdempotencyRecordInv, AuditInv
  DEF Progress
<1>3. ASSUME NEW r \in Requests, Fails(r) PROVE IInv'
  BY <1>1, <1>3, CreateFailsInv, StatementFailsInv, TxFailsInv DEF Fails
<1>4. ASSUME Environment PROVE IInv'
  BY <1>1, <1>4, CrashInv, ElapseInv, ExpirePendingTransfersInv, LapseInv, UploadAssetInv,
     OverwriteAssetInv, DeleteAssetInv, DeleteBrainInv
  DEF Environment
<1> QED
  BY <1>2, <1>3, <1>4 DEF Next

(* The strengthened invariant from which the others follow.                 *)
THEOREM Invariance == Spec => []IInv
<1> QED
  BY InitInv, NextInv, PTL DEF Spec

(* An accepted transfer owns exactly one asset, and no other transfer any.  *)
THEOREM AcceptedOnceAlways == Spec => []AcceptedOnce
<1>1. IInv => AcceptedOnce
  BY DEF IInv
<1> QED
  BY <1>1, Invariance, PTL

(* No pending transfer and no accepted copy loses its bytes.                *)
THEOREM PayloadsStoredAlways == Spec => []PayloadsStored
<1>1. IInv => PayloadsStored
  BY DEF IInv
<1> QED
  BY <1>1, Invariance, PTL

(* Answers, first-hand or replayed, agree with the decision that stands.    *)
THEOREM AnswersAreTrueAlways == Spec => []AnswersAreTrue
<1>1. IInv => AnswersAreTrue
  BY DEF IInv
<1> QED
  BY <1>1, Invariance, PTL

(* The audit holds no event of a decision that was not taken.               *)
THEOREM AuditsAreTrueAlways == Spec => []AuditsAreTrue
<1>1. IInv => AuditsAreTrue
  BY DEF IInv
<1> QED
  BY <1>1, Invariance, PTL

(* Row locks and uncommitted keys are held by the requests that use them.   *)
THEOREM LockDisciplineAlways == Spec => []LockDiscipline
<1>1. IInv => LockDiscipline
  BY DEF IInv
<1> QED
  BY <1>1, Invariance, PTL

(* Of the requests that share an idempotency key, one goes on at a time.    *)
THEOREM KeyAdmitsOneAlways == Spec => []KeyAdmitsOne
<1>1. IInv => KeyAdmitsOne
  BY DEF IInv
<1> QED
  BY <1>1, Invariance, PTL

-----------------------------------------------------------------------------
(* A step decides nothing about a transfer that is already decided, and     *)
(* expires none under the lock of a request.                                *)
LEMMA FinalStep ==
  ASSUME IInv, Next, NEW t \in Transfers
  PROVE  /\ status[t] # "pending" =>
              status'[t] = status[t] /\ acceptedAs'[t] = acceptedAs[t]
         /\ status'[t] = "expired" /\ status[t] # "expired" =>
              t \in due /\ lock[t] = NoRequest
<1> USE DEF IInv, TypeOK, rows
<1>1. ASSUME NEW r \in Requests, Commit(r)
      PROVE  /\ status[Target(r)] = "pending"
             /\ Target(r) # t => status'[t] = status[t] /\ acceptedAs'[t] = acceptedAs[t]
             /\ status'[t] = "expired" => status[t] = "expired"
  BY <1>1 DEF Commit, MarkTransfer, Decision, DecisionOf
<1>2. ASSUME NEW r \in Requests, Progress(r), ~Commit(r)
      PROVE  UNCHANGED <<status, acceptedAs>>
  BY <1>2 DEF Progress, CreateIdempotencyRecord, GetIdempotencyRecord, VisibleTransfer,
     LockTransfer, CheckObjectKey, FetchPayload, PutPayload, InsertAsset, DeleteSource,
     CompleteIdempotencyRecord, Audit, Rollback
<1>3. ASSUME NEW r \in Requests, Fails(r)
      PROVE  UNCHANGED <<status, acceptedAs>>
  BY <1>3 DEF Fails, CreateFails, StatementFails, TxFails, Rollback
<1>4. ASSUME NEW overdue \in SUBSET Transfers, ExpirePendingTransfers(overdue)
      PROVE  /\ UNCHANGED acceptedAs
             /\ t \notin overdue => status'[t] = status[t]
             /\ t \in overdue => status[t] = "pending" /\ t \in due /\ lock[t] = NoRequest
  BY <1>4 DEF ExpirePendingTransfers
<1>5. ASSUME Environment,
             ~\E overdue \in SUBSET Transfers : ExpirePendingTransfers(overdue)
      PROVE  UNCHANGED <<status, acceptedAs>>
  BY <1>5 DEF Environment, Crash, Elapse, Lapse, UploadAsset, OverwriteAsset, DeleteAsset, DeleteBrain
<1> QED
  BY <1>1, <1>2, <1>3, <1>4, <1>5 DEF Next

(* Decisions are final.                                                     *)
THEOREM DecisionsAreFinalAlways == Spec => DecisionsAreFinal
<1>1. ASSUME IInv, [Next]_vars
      PROVE  [\A t \in Transfers :
                /\ status[t] # "pending" =>
                     status'[t] = status[t] /\ acceptedAs'[t] = acceptedAs[t]
                /\ status'[t] = "expired" /\ status[t] # "expired" =>
                     t \in due /\ lock[t] = NoRequest]_vars
  BY <1>1, FinalStep
<1> QED
  BY <1>1, Invariance, PTL DEF Spec, DecisionsAreFinal

-----------------------------------------------------------------------------
(* Refinement of TransferLifecycle.  A step that gives no client an answer  *)
(* of a decision tells nothing.                                             *)
LEMMA SilentStep ==
  ASSUME IInv, UNCHANGED req,
         NEW r \in Requests, pc[r] # "answered", NEW a \in {"none"} \cup Refusals,
         answer' = [answer EXCEPT ![r] = a]
  PROVE  UNCHANGED Told
<1>1. \A q \in Requests : q # r => answer'[q] = answer[q]
  BY DEF IInv, TypeOK
<1>2. answer[r] \notin Decisions /\ answer'[r] \notin Decisions
  BY DEF IInv, TypeOK, AnsweredOnce, Decisions, Refusals
<1> QED
  BY <1>1, <1>2 DEF Told, Target, Key

LEMMA ToldStep ==
  ASSUME IInv, UNCHANGED <<req, rows>>,
         NEW r \in Requests, pc[r] # "answered", NEW a \in Decisions,
         a = status[Target(r)], acceptedAs[Target(r)] = Key(r),
         answer' = [answer EXCEPT ![r] = a]
  PROVE  Lifecycle!Tell(r, Target(r))
<1> DEFINE fact == [transfer |-> Target(r), decision |-> a, objectKey |-> Key(r)]
<1>1. Told[r] = {}
  BY DEF IInv, TypeOK, AnsweredOnce, Told, Decisions
<1>2. answer'[r] = a /\ \A q \in Requests : q # r => answer'[q] = answer[q]
  BY DEF IInv, TypeOK
<1>3. Told' = [Told EXCEPT ![r] = {fact}]
  BY <1>2 DEF Told, Target, Key
<1> QED
  BY <1>1, <1>3 DEF Lifecycle!Tell, rows, Decisions

LEMMA CommitImplements ==
  ASSUME IInv, NEW r \in Requests, Commit(r)
  PROVE  Lifecycle!Next
<1>1. UNCHANGED Told
  <2>1. CASE UNCHANGED answer
    BY <2>1 DEF Commit, Told, Target, Key
  <2>2. CASE Answer(r, "failed")
    BY <2>2, SilentStep DEF Commit, Answer, Refusals
  <2> QED
    BY <2>1, <2>2 DEF Commit
<1>2. /\ Target(r) \in Transfers
      /\ req[r].op = "accept" => Key(r) \in ObjectKeys /\ assets[Key(r)] = Free /\ brain
  BY DEF IInv, TypeOK, Request, Target, Key, LockDiscipline, Commit, InTx
<1>3. CASE req[r].op = "accept"
  <2>1. Lifecycle!Accept(Target(r), Key(r))
    BY <1>1, <1>2, <1>3 DEF Lifecycle!Accept, Commit, MarkTransfer, Decision, DecisionOf
  <2> QED
    BY <1>2, <1>3, <2>1 DEF Lifecycle!Next
<1>4. CASE req[r].op # "accept"
  <2>1. Lifecycle!Reject(Target(r))
    BY <1>1, <1>4 DEF Lifecycle!Reject, Commit, MarkTransfer, Decision, DecisionOf
  <2> QED
    BY <1>2, <2>1 DEF Lifecycle!Next
<1> QED
  BY <1>3, <1>4

LEMMA AuditImplements ==
  ASSUME IInv, NEW r \in Requests, Audit(r)
  PROVE  Lifecycle!Next
<1>1. /\ Target(r) \in Transfers
      /\ Decision(r) \in Decisions
  BY DEF IInv, TypeOK, Request, Target, Decision, DecisionOf, Decisions
<1>2. Decision(r) = status[Target(r)] /\ acceptedAs[Target(r)] = Key(r)
  BY DEF IInv, DecidedAfterCommit, Audit, After
<1>3. Lifecycle!Tell(r, Target(r))
  BY <1>1, <1>2, ToldStep DEF Audit, Answer
<1> QED
  BY <1>1, <1>3 DEF Lifecycle!Next

LEMMA ReplayImplements ==
  ASSUME IInv, NEW r \in Requests, GetIdempotencyRecord(r)
  PROVE  [Lifecycle!Next]_<<status, acceptedAs, brain, assets, Told>>
<1> DEFINE record == idem[Scope(r)]
<1>1. /\ Target(r) \in Transfers
      /\ Scope(r) \in Scopes
      /\ Scope(r).transfer = Target(r)
  BY DEF IInv, TypeOK, Request, Target, Scope, Scopes
<1>2. \/ record = Absent
      \/ record.response = "open"
      \/ record # Absent /\ record.response \in Decisions
  BY <1>1 DEF IInv, TypeOK
<1>3. CASE \E a \in Refusals : Answer(r, a)
  <2>1. UNCHANGED Told
    BY <1>3, SilentStep DEF GetIdempotencyRecord, Answer
  <2> QED
    BY <2>1 DEF GetIdempotencyRecord, rows
<1>4. CASE record # Absent /\ record.hash = Key(r) /\ record.response \in Decisions
           /\ Answer(r, record.response)
  <2>1. record.response = status[Target(r)] /\ acceptedAs[Target(r)] = Key(r)
    BY <1>1, <1>4 DEF IInv, RecordsAreTrue
  <2>2. Lifecycle!Tell(r, Target(r))
    BY <1>4, <2>1, ToldStep DEF GetIdempotencyRecord, Answer
  <2> QED
    BY <1>1, <2>2 DEF Lifecycle!Next
<1>5. \/ \E a \in Refusals : Answer(r, a)
      \/ record # Absent /\ record.hash = Key(r) /\ record.response \in Decisions
           /\ Answer(r, record.response)
  <2> HIDE DEF record
  <2>1. Answer(r, "failed") \/ Answer(r, "key_reused") \/ Answer(r, "in_progress")
          => \E a \in Refusals : Answer(r, a)
    BY DEF Refusals
  <2> QED
    BY <1>2, <2>1 DEF GetIdempotencyRecord, record, Decisions
<1> QED
  BY <1>3, <1>4, <1>5

LEMMA OtherStepsImplement ==
  ASSUME IInv, NEW r \in Requests, Progress(r) \/ Fails(r),
         ~Commit(r), ~Audit(r), ~GetIdempotencyRecord(r)
  PROVE  UNCHANGED <<status, acceptedAs, brain, assets, Told>>
<1>1. UNCHANGED rows /\ UNCHANGED req
  BY DEF Progress, Fails, CreateIdempotencyRecord, VisibleTransfer, LockTransfer,
     CheckObjectKey, FetchPayload, PutPayload, InsertAsset, DeleteSource,
     CompleteIdempotencyRecord, CreateFails, StatementFails, TxFails, Rollback
<1>2. pc[r] # "answered"
  BY DEF Progress, Fails, CreateIdempotencyRecord, VisibleTransfer, LockTransfer,
     CheckObjectKey, FetchPayload, PutPayload, InsertAsset, DeleteSource,
     CompleteIdempotencyRecord, CreateFails, StatementFails, TxFails, InTx
<1>3. UNCHANGED answer \/ \E a \in Refusals : answer' = [answer EXCEPT ![r] = a]
  BY DEF Progress, Fails, CreateIdempotencyRecord, VisibleTransfer, LockTransfer,
     CheckObjectKey, FetchPayload, PutPayload, InsertAsset, DeleteSource,
     CompleteIdempotencyRecord, CreateFails, StatementFails, TxFails, Rollback, Answer,
     Refusals
<1>4. UNCHANGED Told
  <2>1. CASE UNCHANGED answer
    BY <1>1, <2>1 DEF Told, Target, Key
  <2>2. CASE \E a \in Refusals : answer' = [answer EXCEPT ![r] = a]
    BY <1>1, <1>2, <2>2, SilentStep
  <2> QED
    BY <1>3, <2>1, <2>2
<1> QED
  BY <1>1, <1>4 DEF rows

LEMMA EnvironmentImplements ==
  ASSUME IInv, Environment
  PROVE  [Lifecycle!Next]_<<status, acceptedAs, brain, assets, Told>>
<1>1. UNCHANGED Told
  BY DEF Environment, Crash, Elapse, ExpirePendingTransfers, Lapse, UploadAsset,
     OverwriteAsset, DeleteAsset, DeleteBrain, Told, Target, Key
<1>2. CASE Crash \/ (\E t \in Transfers : Elapse(t)) \/ (\E s \in Scopes : Lapse(s))
  BY <1>1, <1>2 DEF Crash, Elapse, Lapse, rows
<1>3. ASSUME NEW overdue \in SUBSET Transfers, ExpirePendingTransfers(overdue)
      PROVE  Lifecycle!Next
  <2>1. Lifecycle!Expire(overdue)
    BY <1>1, <1>3 DEF ExpirePendingTransfers, Lifecycle!Expire
  <2> QED
    BY <2>1 DEF Lifecycle!Next
<1>4. ASSUME NEW k \in ObjectKeys, UploadAsset(k) \/ OverwriteAsset(k)
      PROVE  Lifecycle!Next
  <2>1. brain
    BY <1>4 DEF IInv, TypeOK, AcceptedOnce, UploadAsset, OverwriteAsset
  <2>2. Lifecycle!Upload(k)
    BY <1>1, <1>4, <2>1 DEF UploadAsset, OverwriteAsset, Lifecycle!Upload
  <2> QED
    BY <2>2 DEF Lifecycle!Next
<1>5. ASSUME NEW k \in ObjectKeys, DeleteAsset(k)
      PROVE  Lifecycle!Next
  <2>1. Lifecycle!Remove(k)
    BY <1>1, <1>5 DEF DeleteAsset, Lifecycle!Remove
  <2> QED
    BY <2>1 DEF Lifecycle!Next
<1>6. ASSUME DeleteBrain
      PROVE  Lifecycle!Next
  <2>1. \A t \in Transfers : acceptedAs[t] = NoKey
    BY <1>6 DEF IInv, AcceptedOnce, DeleteBrain
  <2>2. Lifecycle!DeleteBrain
    BY <1>1, <1>6, <2>1 DEF DeleteBrain, Lifecycle!DeleteBrain
  <2> QED
    BY <2>2 DEF Lifecycle!Next
<1> QED
  BY <1>2, <1>3, <1>4, <1>5, <1>6 DEF Environment

(* The handlers, with their retries, rollbacks and crashes, keep the        *)
(* promise of TransferLifecycle.                                            *)
THEOREM Refinement == Spec => ImplementsLifecycle
<1>1. Init => Lifecycle!Init
  BY DEF Init, Lifecycle!Init, Told, Decisions
<1>2. IInv /\ [Next]_vars => [Lifecycle!Next]_<<status, acceptedAs, brain, assets, Told>>
  <2>1. ASSUME UNCHANGED vars PROVE UNCHANGED <<status, acceptedAs, brain, assets, Told>>
    BY <2>1 DEF vars, rows, Told, Target, Key
  <2>2. ASSUME IInv, NEW r \in Requests, Progress(r) \/ Fails(r)
        PROVE  [Lifecycle!Next]_<<status, acceptedAs, brain, assets, Told>>
    BY <2>2, CommitImplements, AuditImplements, ReplayImplements, OtherStepsImplement
  <2> QED
    BY <2>1, <2>2, EnvironmentImplements DEF Next
<1> QED
  BY <1>1, <1>2, Invariance, PTL
  DEF Spec, ImplementsLifecycle, Lifecycle!Spec, Lifecycle!lifecycleVars
=============================================================================
