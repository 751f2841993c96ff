-------------------------- MODULE MCLearnerProgress --------------------------
(***************************************************************************)
(* LearnerProgress on a small instance.  Two requests run in a behaviour:  *)
(* two of an exam, two of a practice session, or one of each.  The first   *)
(* of a kind is a submission or completion; another request is one too, or *)
(* an answer, for the exam a right one.  The exam draws the first of the   *)
(* two questions; exam and session exist when the requests arrive.         *)
(***************************************************************************)
EXTENDS LearnerProgress

CONSTANTS e1, e2, p1, p2, q1

VARIABLE sent  \* the requests that are sent

Unsent == Requests \ sent

MCInit ==
  /\ Init
  /\ sent \in {{e1, e2}, {p1, p2}, {e1, p1}}
  /\ \A r \in ExamRequests : r = e1 \/ r \in Unsent => examAsk[r].op = "submit"
  /\ \A r \in PracticeRequests : r = p1 \/ r \in Unsent => ask[r].op = "complete"
  /\ examAsk[e2].op = "answer" => examAsk[e2].choice = "right" /\ examAsk[e2].question = q1

MCNext ==
  /\ Next /\ UNCHANGED sent
  /\ \A r \in ExamRequests :
       examPc'[r] # "idle" => r \in sent /\ examStatus[examAsk[r].exam] # "none"
  /\ \A r \in PracticeRequests :
       pc'[r] # "idle" => r \in sent /\ status[ask[r].session] # "none"
  /\ \A e \in Exams : examPaper'[e] \in {<<>>, <<q1>>}
  /\ sent \subseteq ExamRequests => status' = status
  /\ sent \subseteq PracticeRequests => examStatus' = examStatus

MCSpec == MCInit /\ [][MCNext]_<<vars, sent>> /\ Fairness
=============================================================================
