-------------------------- MODULE SubmissionProofs --------------------------
(***************************************************************************)
(* Proofs about Submission, for any number of submissions, keys and        *)
(* documents and any number of faults: the promises of the endpoint, and   *)
(* that it implements SubmitOnce.  A transaction that has inserted a key   *)
(* holds its index entry until it commits (KeyIsReserved); one that is     *)
(* about to SELECT has seen a committed row, and rows stay (RowIsThere).   *)
(***************************************************************************)
EXTENDS Submission, TLAPS

-----------------------------------------------------------------------------
(* The inductive invariant                                                 *)

\* The document is stored before the transaction begins.
DocumentIsStored ==
    \A s \in Submissions : pc[s] # "upload" => Doc(s) \in objects

KeyIsReserved ==
    \A s \in Submissions :
        pc[s] = "commit" => keyLock[key[s]] = s /\ job[key[s]] = NoRequest

RowIsThere == \A s \in Submissions : pc[s] = "select" => job[key[s]] # NoRequest

\* A submission has an answer from the end of its transaction on.
AnsweredAtTheEnd ==
    \A s \in Submissions : answer[s] = "none" <=> pc[s] \notin {"answered", "done"}

IInv ==
    /\ TypeOK
    /\ DocumentIsStored
    /\ KeyIsReserved
    /\ RowIsThere
    /\ AnsweredAtTheEnd
    /\ JobsHaveDocuments
    /\ NothingDisappears
    /\ CreatedOnce
    /\ AnswersFitTheJob

-----------------------------------------------------------------------------

LEMMA InitIInv == Init => IInv
<1> SUFFICES ASSUME Init PROVE IInv
  OBVIOUS
<1>1. TypeOK
  BY DEF Init, TypeOK, Steps
<1> QED
  BY <1>1 DEF Init, IInv, DocumentIsStored, KeyIsReserved, RowIsThere,
     AnsweredAtTheEnd, JobsHaveDocuments, NothingDisappears, CreatedOnce,
     AnswersFitTheJob

LEMMA ReleaseType ==
    ASSUME TypeOK, NEW s \in Submissions, Release(s)
    PROVE  /\ documentLock' \in [Documents -> Submissions \cup {NoOne}]
           /\ keyLock' \in [Keys -> Submissions \cup {NoOne}]
           /\ \A t \in Submissions : t # s => \A k \in Keys :
                  keyLock[k] = t => keyLock'[k] = t
BY DEF Release, TypeOK

\* The steps that leave tables and answers alone.
LEMMA QuietStep ==
    ASSUME IInv, NEW s \in Submissions,
           Upload(s) \/ UpsertDocument(s) \/ InsertJob(s) \/ Receive(s)
    PROVE  IInv'
<1> USE DEF IInv, Goto
<1>0. /\ UNCHANGED <<key, request, answer, documents, job, queued, faults>>
      /\ objects \subseteq objects'
  BY DEF Upload, UpsertDocument, InsertJob, Receive, asked, tables
<1>1. TypeOK'
  <2>1. CASE Upload(s)
    BY <2>1 DEF Upload, TypeOK, Steps, Doc, Requests, asked, tables, locks
  <2>2. CASE UpsertDocument(s)
    BY <2>2 DEF UpsertDocument, TypeOK, Steps, asked, tables
  <2>3. CASE InsertJob(s)
    BY <2>3 DEF InsertJob, TypeOK, Steps, asked, tables
  <2>4. CASE Receive(s)
    BY <2>4 DEF Receive, TypeOK, Steps, asked, tables, locks
  <2> QED
    BY <2>1, <2>2, <2>3, <2>4
<1>2. \A t \in Submissions : t # s => pc'[t] = pc[t]
  BY DEF Upload, UpsertDocument, InsertJob, Receive, TypeOK
<1>3. /\ pc'[s] \in Steps \ {"upload"}
      /\ pc[s] = "upload" => Doc(s) \in objects'
      /\ pc'[s] = "commit" => keyLock'[key[s]] = s /\ job[key[s]] = NoRequest
      /\ pc'[s] = "select" => job[key[s]] # NoRequest
      /\ pc[s] \in {"answered", "done"} <=> pc'[s] \in {"answered", "done"}
  BY DEF Upload, UpsertDocument, InsertJob, Receive, TypeOK, Steps
<1>4. \A t \in Submissions : t # s =>
          \A k \in Keys : keyLock[k] = t => keyLock'[k] = t
  BY NoOneIsFresh DEF Upload, UpsertDocument, InsertJob, Receive, TypeOK, locks
<1>5. DocumentIsStored'
  BY <1>0, <1>2, <1>3 DEF DocumentIsStored, Doc
<1>6. KeyIsReserved'
  BY <1>0, <1>2, <1>3, <1>4 DEF KeyIsReserved, TypeOK
<1>7. RowIsThere'
  BY <1>0, <1>2, <1>3 DEF RowIsThere
<1>8. AnsweredAtTheEnd'
  BY <1>0, <1>2, <1>3 DEF AnsweredAtTheEnd
<1>9. JobsHaveDocuments'
  BY <1>0 DEF JobsHaveDocuments
<1>10. NothingDisappears' /\ CreatedOnce' /\ AnswersFitTheJob'
  BY <1>0 DEF NothingDisappears, CreatedOnce, AnswersFitTheJob
<1> QED
  BY <1>1, <1>5, <1>6, <1>7, <1>8, <1>9, <1>10

LEMMA CommitStep ==
    ASSUME IInv, NEW s \in Submissions, Commit(s)
    PROVE  IInv'
<1> USE DEF IInv
<1>1. /\ pc[s] = "commit" /\ pc' = [pc EXCEPT ![s] = "answered"]
      /\ answer' = [answer EXCEPT ![s] = "created"]
      /\ documents' = documents \cup {Doc(s)}
      /\ job' = [job EXCEPT ![key[s]] = request[s]]
      /\ queued' = [queued EXCEPT ![key[s]] = @ + 1]
      /\ UNCHANGED <<key, request, objects, faults>>
  BY DEF Commit, Goto, asked
<1>2. /\ key[s] \in Keys /\ request[s] \in Requests /\ Doc(s) \in Documents
      /\ Doc(s) = request[s].document /\ request[s] # NoRequest
  BY NoRequestIsFresh DEF TypeOK, Doc, Requests
<1>3. keyLock[key[s]] = s /\ job[key[s]] = NoRequest /\ Doc(s) \in objects
  BY <1>1 DEF KeyIsReserved, DocumentIsStored
<1>4. Release(s)
  BY DEF Commit
<1>5. \A t \in Submissions : t # s /\ key[t] = key[s] =>
          pc[t] # "commit" /\ answer[t] \notin {"created", "existing", "conflict"}
  BY <1>3, NoRequestIsFresh DEF KeyIsReserved, AnswersFitTheJob, TypeOK
<1>6. \A k \in Keys : k # key[s] => job'[k] = job[k] /\ queued'[k] = queued[k]
  BY <1>1 DEF TypeOK
<1>7. \A t \in Submissions : t # s => pc'[t] = pc[t] /\ answer'[t] = answer[t]
  BY <1>1 DEF TypeOK
<1>8. job'[key[s]] = request[s] /\ queued'[key[s]] = queued[key[s]] + 1
  BY <1>1, <1>2 DEF TypeOK
<1>9. pc'[s] = "answered" /\ answer'[s] = "created"
  BY <1>1 DEF TypeOK
<1>10. TypeOK'
  <2>1. /\ pc' \in [Submissions -> Steps]
        /\ answer' \in [Submissions ->
                          {"none", "created", "existing", "conflict", "disappeared"}]
    BY <1>1 DEF TypeOK, Steps
  <2>2. /\ documents' \in SUBSET Documents
        /\ job' \in [Keys -> Requests \cup {NoRequest}]
        /\ queued' \in [Keys -> Nat]
    BY <1>1, <1>2 DEF TypeOK
  <2> QED
    BY <1>1, <1>4, <2>1, <2>2, ReleaseType DEF TypeOK
<1>11. DocumentIsStored'
  BY <1>1, <1>3, <1>7 DEF DocumentIsStored, Doc
<1>12. KeyIsReserved'
  <2> SUFFICES ASSUME NEW t \in Submissions, pc'[t] = "commit"
               PROVE  keyLock'[key'[t]] = t /\ job'[key'[t]] = NoRequest
    BY DEF KeyIsReserved
  <2>1. t # s /\ pc[t] = "commit"
    BY <1>7, <1>9
  <2>2. key[t] # key[s] /\ key[t] \in Keys
    BY <1>5, <2>1 DEF TypeOK
  <2>3. keyLock[key[t]] = t /\ job[key[t]] = NoRequest
    BY <2>1 DEF KeyIsReserved
  <2> QED
    BY <1>1, <1>4, <1>6, <2>1, <2>2, <2>3, ReleaseType
<1>13. RowIsThere'
  BY <1>1, <1>2, <1>6, <1>7, <1>8, <1>9 DEF RowIsThere, TypeOK
<1>14. AnsweredAtTheEnd'
  BY <1>7, <1>9 DEF AnsweredAtTheEnd
<1>15. JobsHaveDocuments'
  BY <1>1, <1>2, <1>3, <1>6, <1>8 DEF JobsHaveDocuments
<1>16. NothingDisappears'
  BY <1>7, <1>9 DEF NothingDisappears
<1>17. CreatedOnce'
  <2>1. \A k \in Keys : queued'[k] = IF job'[k] = NoRequest THEN 0 ELSE 1
    BY <1>2, <1>3, <1>6, <1>8 DEF CreatedOnce
  <2> QED
    BY <1>1, <1>5, <1>7, <2>1 DEF CreatedOnce
<1>18. AnswersFitTheJob'
  <2> SUFFICES ASSUME NEW t \in Submissions
               PROVE  /\ answer'[t] \in {"created", "existing"} => job'[key[t]] = request[t]
                      /\ answer'[t] = "conflict" => job'[key[t]] \notin {NoRequest, request[t]}
    BY <1>1 DEF AnswersFitTheJob
  <2>1. CASE t = s
    BY <1>8, <1>9, <2>1
  <2>2. CASE t # s /\ key[t] = key[s]
    BY <1>5, <1>7, <2>2
  <2>3. CASE t # s /\ key[t] # key[s]
    BY <1>6, <1>7, <2>3 DEF AnswersFitTheJob, TypeOK
  <2> QED
    BY <2>1, <2>2, <2>3
<1> QED
  BY <1>10, <1>11, <1>12, <1>13, <1>14, <1>15, <1>16, <1>17, <1>18

LEMMA SelectStep ==
    ASSUME IInv, NEW s \in Submissions, Select(s)
    PROVE  IInv'
<1> USE DEF IInv
<1>1. /\ pc[s] = "select" /\ pc' = [pc EXCEPT ![s] = "answered"]
      /\ answer' = [answer EXCEPT ![s] = Verdict(s)]
      /\ documents \subseteq documents' /\ documents' \subseteq documents \cup {Doc(s)}
      /\ UNCHANGED <<key, request, objects, job, queued, faults>>
  BY DEF Select, Goto, asked
<1>2. Release(s) /\ Doc(s) \in Documents
  BY DEF Select, TypeOK, Doc, Requests
<1>3. job[key[s]] # NoRequest
  BY <1>1 DEF RowIsThere
<1>4. /\ Verdict(s) \in {"existing", "conflict"}
      /\ Verdict(s) = "existing" => job[key[s]] = request[s]
      /\ Verdict(s) = "conflict" => job[key[s]] \notin {NoRequest, request[s]}
  BY <1>3 DEF Verdict
<1>5. \A t \in Submissions : t # s => pc'[t] = pc[t] /\ answer'[t] = answer[t]
  BY <1>1 DEF TypeOK
<1>6. pc'[s] = "answered" /\ answer'[s] = Verdict(s)
  BY <1>1 DEF TypeOK
<1>7. TypeOK'
  <2>1. /\ pc' \in [Submissions -> Steps]
        /\ answer' \in [Submissions ->
                          {"none", "created", "existing", "conflict", "disappeared"}]
    BY <1>1, <1>4 DEF TypeOK, Steps
  <2> QED
    BY <1>1, <1>2, <2>1, ReleaseType DEF TypeOK
<1>8. DocumentIsStored'
  BY <1>1, <1>5 DEF DocumentIsStored, Doc
<1>9. KeyIsReserved'
  BY <1>1, <1>2, <1>5, <1>6, ReleaseType DEF KeyIsReserved, TypeOK
<1>10. RowIsThere' /\ AnsweredAtTheEnd'
  BY <1>1, <1>4, <1>5, <1>6 DEF RowIsThere, AnsweredAtTheEnd
<1>11. JobsHaveDocuments'
  BY <1>1 DEF JobsHaveDocuments
<1>12. NothingDisappears'
  BY <1>4, <1>5, <1>6 DEF NothingDisappears
<1>13. CreatedOnce'
  BY <1>1, <1>4, <1>5, <1>6 DEF CreatedOnce
<1>14. AnswersFitTheJob'
  BY <1>1, <1>4, <1>5, <1>6 DEF AnswersFitTheJob
<1> QED
  BY <1>7, <1>8, <1>9, <1>10, <1>11, <1>12, <1>13, <1>14

LEMMA FaultStep ==
    ASSUME IInv, NEW s \in Submissions, Fault(s)
    PROVE  IInv'
<1> USE DEF IInv
<1>1. /\ pc' = [pc EXCEPT ![s] = "upload"] /\ answer' = [answer EXCEPT ![s] = "none"]
      /\ faults' = faults + 1
      /\ UNCHANGED <<key, request, objects, documents, job, queued>>
  BY DEF Fault, Goto, asked, tables
<1>2. Release(s)
  BY DEF Fault
<1>3. \A t \in Submissions : t # s => pc'[t] = pc[t] /\ answer'[t] = answer[t]
  BY <1>1 DEF TypeOK
<1>4. pc'[s] = "upload" /\ answer'[s] = "none"
  BY <1>1 DEF TypeOK
<1>5. TypeOK'
  <2>1. /\ pc' \in [Submissions -> Steps]
        /\ answer' \in [Submissions ->
                          {"none", "created", "existing", "conflict", "disappeared"}]
    BY <1>1 DEF TypeOK, Steps
  <2> QED
    BY <1>1, <1>2, <2>1, ReleaseType DEF TypeOK
<1>6. DocumentIsStored' /\ RowIsThere' /\ AnsweredAtTheEnd'
  BY <1>1, <1>3, <1>4 DEF DocumentIsStored, RowIsThere, AnsweredAtTheEnd, Doc
<1>7. KeyIsReserved'
  BY <1>1, <1>2, <1>3, <1>4, ReleaseType DEF KeyIsReserved, TypeOK
<1>8. JobsHaveDocuments' /\ NothingDisappears' /\ CreatedOnce' /\ AnswersFitTheJob'
  BY <1>1, <1>3, <1>4 DEF JobsHaveDocuments, NothingDisappears, CreatedOnce,
                          AnswersFitTheJob
<1> QED
  BY <1>5, <1>6, <1>7, <1>8

LEMMA NextIInv == IInv /\ [Next]_vars => IInv'
<1> SUFFICES ASSUME IInv, [Next]_vars PROVE IInv'
  OBVIOUS
<1>1. ASSUME NEW s \in Submissions, Advance(s) \/ Fault(s)
      PROVE  IInv'
  BY <1>1, QuietStep, CommitStep, SelectStep, FaultStep DEF Advance
<1>2. CASE UNCHANGED vars
  BY <1>2 DEF vars, asked, tables, locks, IInv, TypeOK, DocumentIsStored, KeyIsReserved,
     RowIsThere, AnsweredAtTheEnd, JobsHaveDocuments, NothingDisappears, CreatedOnce,
     AnswersFitTheJob, Doc
<1> QED
  BY <1>1, <1>2 DEF Next, Finished

\* The inductive invariant holds in every reachable state.
THEOREM Invariance == Spec => []IInv
BY InitIInv, NextIInv, PTL DEF Spec

\* Submissions, tables and locks keep their types.
THEOREM TypeCorrect == Spec => []TypeOK
<1>1. IInv => TypeOK
  BY DEF IInv
<1> QED
  BY <1>1, Invariance, PTL

\* Every committed job has its document's row and bytes.
THEOREM DocumentsAreThere == Spec => []JobsHaveDocuments
<1>1. IInv => JobsHaveDocuments
  BY DEF IInv
<1> QED
  BY <1>1, Invariance, PTL

\* The RuntimeError of submit() is unreachable.
THEOREM SelectFindsTheRow == Spec => []NothingDisappears
<1>1. IInv => NothingDisappears
  BY DEF IInv
<1> QED
  BY <1>1, Invariance, PTL

\* Each job has one "queued" event and at most one creator.
THEOREM JobsAreCreatedOnce == Spec => []CreatedOnce
<1>1. IInv => CreatedOnce
  BY DEF IInv
<1> QED
  BY <1>1, Invariance, PTL

\* Answers agree with the stored request.
THEOREM AnswersAreRight == Spec => []AnswersFitTheJob
<1>1. IInv => AnswersFitTheJob
  BY DEF IInv
<1> QED
  BY <1>1, Invariance, PTL

\* All four at once.
THEOREM Soundness == Spec => []SubmissionsAreSound
BY DocumentsAreThere, SelectFindsTheRow, JobsAreCreatedOnce, AnswersAreRight, PTL
   DEF SubmissionsAreSound

-----------------------------------------------------------------------------
(* Refinement                                                              *)

LEMMA StepsAreOnce ==
    ASSUME IInv, NEW s \in Submissions, Advance(s) \/ Fault(s)
    PROVE  [Once!Next]_(<<key, request, job, answer>>)
<1> USE DEF IInv
<1>1. CASE Upload(s) \/ UpsertDocument(s) \/ InsertJob(s) \/ Receive(s)
  BY <1>1 DEF Upload, UpsertDocument, InsertJob, Receive, asked, tables
<1>2. CASE Commit(s)
  <2>1. Once!Bind(s)
    BY <1>2 DEF Commit, asked, Once!Bind, Once!Answer, KeyIsReserved, AnsweredAtTheEnd
  <2> QED
    BY <2>1 DEF Once!Next
<1>3. CASE Select(s)
  <2>1. answer[s] = "none" /\ job[key[s]] # NoRequest
    BY <1>3 DEF Select, RowIsThere, AnsweredAtTheEnd
  <2>2. /\ answer' = [answer EXCEPT ![s] = Verdict(s)]
        /\ UNCHANGED <<key, request, job>>
    BY <1>3 DEF Select, asked
  <2>3. CASE job[key[s]] = request[s]
    <3>1. Once!Repeat(s)
      BY <2>1, <2>2, <2>3 DEF Verdict, Once!Repeat, Once!Answer
    <3> QED
      BY <3>1 DEF Once!Next
  <2>4. CASE job[key[s]] # request[s]
    <3>1. Once!Refuse(s)
      BY <2>1, <2>2, <2>4 DEF Verdict, Once!Refuse, Once!Answer
    <3> QED
      BY <3>1 DEF Once!Next
  <2> QED
    BY <2>3, <2>4
<1>4. CASE Fault(s)
  <2>1. Once!Lose(s)
    BY <1>4 DEF Fault, asked, tables, Once!Lose
  <2> QED
    BY <2>1 DEF Once!Next
<1> QED
  BY <1>1, <1>2, <1>3, <1>4 DEF Advance

\* The endpoint implements atomic, permanent binding of keys to requests.
THEOREM Refinement == Spec => ImplementsSubmitOnce
<1>1. Init => Once!Init
  BY DEF Init, Once!Init
<1>2. IInv /\ [Next]_vars => [Once!Next]_(Once!once)
  <2> SUFFICES ASSUME IInv, [Next]_vars PROVE [Once!Next]_(Once!once)
    OBVIOUS
  <2>1. CASE UNCHANGED vars
    BY <2>1 DEF vars, asked, tables, Once!once
  <2>2. ASSUME NEW s \in Submissions, Advance(s) \/ Fault(s)
        PROVE  [Once!Next]_(Once!once)
    BY <2>2, StepsAreOnce DEF Once!once
  <2> QED
    BY <2>1, <2>2 DEF Next, Finished
<1> QED
  BY <1>1, <1>2, Invariance, PTL DEF Spec, Once!Spec, ImplementsSubmitOnce

=============================================================================
