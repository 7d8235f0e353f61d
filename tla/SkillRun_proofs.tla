---------------------------- MODULE SkillRun_proofs ----------------------------
(***************************************************************************)
(* What SkillRun promises of one ticket holds for any number of retries    *)
(* and of calls on one work_dir.  IInv says, for every place a call can be *)
(* at, which runs were made, whose output the gates saw, who decided on    *)
(* the model and that nothing was reported yet.                            *)
(***************************************************************************)
EXTENDS SkillRun, TLAPS

\* Places from the first launch of a call on, in their order; a session also
\* exits when it could not route.
Launched == {"launch", "agent", "judge"}
Exiting == pc = "exit" /\ rc # "raise"
Judged == {"cost", "postGates", "load", "label"}

\* Nothing is reported before the call ends, and the report is the last step;
\* a call a pre-gate blocked made no run.
Reported ==
  /\ reports = <<>> \/ \E k \in Reports : reports = <<k>>
  /\ pc # "idle" => reports = <<>> /\ outcome = "none"
  /\ outcome \in {"failed", "done"} => reports # <<>>
  /\ outcome = "blocked" => reports = <<>> /\ execs = first
  /\ reports = <<"verdict">> => rc = "ok" /\ (dry \/ gated > first)

\* Runs are made in sessions only, a dry run has none; the call goes on to the
\* verdict after a run that exited with 0, and the gates saw one.
Seen ==
  /\ execs >= first
  /\ pc \in {"pre", "hooks"} => execs = first /\ rc = "ok" /\ tries = 0 /\ ~rerun
  /\ pc \in {"agent", "judge"} \/ Exiting => execs > first
  /\ dry => pc \notin InSession \cup {"enter", "judge"}
  /\ pc \in Judged => rc = "ok"
  /\ pc \in {"cost", "postGates"} => dry \/ execs > first
  /\ pc \in {"load", "label"} \/ rerun => dry \/ gated > first

\* A routed call decides before its first agent run, and the classifier writes
\* to a work_dir without a route file; without a copy there is none in it.
Routes ==
  /\ Routed /\ decision = "none" /\ pc \in {"pre", "hooks", "enter", "setup", "route"} => execs = first
  /\ pc \in {"route", "classifier"} => Routed /\ decision = "none"
  /\ pc = "classifier" => route = NoFile /\ execs = first + 1
  /\ Routed /\ ~dry /\ (pc \in Launched \cup Judged \/ Exiting) => decision # "none"
  /\ ~copied => copy = NoFile
  /\ RouteOfThisCall

\* The runs of a call: the classifier's, one per retry, one for an unreadable
\* verdict, and one more once the agent was launched.
RunsCounted ==
  pc # "idle" =>
    execs <= first + (IF decision = "none" /\ pc # "classifier" THEN 0 ELSE 1)
             + tries + (IF rerun THEN 1 ELSE 0)
             + (IF pc \in {"agent", "exit", "judge"} \cup Judged THEN 1 ELSE 0)

IInv ==
  /\ TypeOK
  /\ Reported
  /\ Seen
  /\ Routes
  /\ RunsCounted
  /\ SessionsReleased

\* A report is the first of its call, and ends it.
LEMMA ReportEnds ==
  ASSUME reports = <<>>, NEW kind \in Reports, Report(kind)
  PROVE  /\ reports' = <<kind>> /\ pc' = "idle"
         /\ outcome' \in {"done", "failed", "raised"}
<1>1. reports' = <<kind>>
  BY DEF Report
<1> QED
  BY <1>1 DEF Report, Ends

\* The values files and reports can have.
LEMMA Values ==
  /\ NoFile \in Files /\ Reports # {}
  /\ \A n \in Nat, v \in BOOLEAN : [by |-> n, valid |-> v] \in Files
  /\ <<>> \in Seq(Reports)
  /\ \A k \in Reports : <<k>> \in Seq(Reports)
BY DEF Files, NoFile, Reports

\* What a run leaves in a file is a file again.
LEMMA WrittenFiles ==
  ASSUME NEW file \in Files, execs \in Nat
  PROVE  Written(file) \subseteq Files
BY Values DEF Written, Files

\* Every step keeps the types.
LEMMA NextTyped == IInv /\ [Next]_vars => TypeOK'
<1> SUFFICES ASSUME TypeOK, pc # "idle" => reports = <<>>, [Next]_vars PROVE TypeOK'
  BY DEF IInv, Reported
<1> USE ConstantsAssumption DEF TypeOK, Outcomes, ExitCodes, Sources, InSession, Pcs,
   callVars, files, session, meters
<1>1. CASE Begin
  <2>1. reports' \in Seq(Reports) /\ verdict' \in Files /\ route' \in Files
    BY <1>1, Values DEF Begin
  <2>2. calls' \in 0..MaxCalls /\ first' \in Nat /\ tries' \in 0..MaxRetries
    BY <1>1 DEF Begin
  <2> QED
    BY <1>1, <2>1, <2>2 DEF Begin
<1>2. CASE PreGates
  BY <1>2 DEF PreGates, Ends
<1>3. CASE Hooks
  BY <1>3, Values DEF Hooks, Ends
<1>4. CASE Enter
  <2>1. log' \subseteq Nat /\ pc' \in Pcs /\ outcome' \in Outcomes
    BY <1>4 DEF Enter, Ends
  <2>2. collector' \in BOOLEAN /\ orphan' \in BOOLEAN
    BY <1>4 DEF Enter
  <2>3. UNCHANGED <<rc, dry, tries, rerun, decision, gated, cost, reports, first, calls, execs>>
    BY <1>4 DEF Enter
  <2>4. UNCHANGED <<verdict, route, metered, backend, copied, copy>>
    BY <1>4 DEF Enter
  <2> QED
    BY <2>1, <2>2, <2>3, <2>4
<1>5. CASE Setup
  <2>1. copy' \in {route, copy, NoFile}
    BY <1>5 DEF Setup, SetsUp, Stops
  <2>2. pc' \in Pcs /\ outcome' \in Outcomes /\ collector' \in BOOLEAN
    BY <1>5 DEF Setup, Ends
  <2>3. backend' \in {"none", "up", "left"} /\ copy' \in Files
    BY <1>5, <2>1, Values DEF Setup, SetsUp, Stops
  <2>4. UNCHANGED <<rc, dry, tries, rerun, decision, gated, cost, reports, first, calls, execs>>
    BY <1>5 DEF Setup
  <2>5. UNCHANGED <<verdict, route, log, metered, orphan, copied>>
    BY <1>5 DEF Setup
  <2> QED
    BY <2>2, <2>3, <2>4, <2>5
<1>6. CASE Route
  BY <1>6, Values DEF Route
<1>7. CASE ClassifierReturns
  <2>1. Written(copy) \subseteq Files /\ Written(route) \subseteq Files
    BY WrittenFiles
  <2>2. copy' \in Files /\ route' \in Files /\ decision' \in Sources
    BY <1>7, <2>1 DEF ClassifierReturns
  <2> QED
    BY <1>7, <2>2 DEF ClassifierReturns, Metered
<1>8. CASE Launch
  BY <1>8 DEF Launch
<1>9. CASE AgentReturns
  <2>1. verdict' \in Files /\ route' \in Files
    BY <1>9, WrittenFiles DEF AgentReturns
  <2>2. rc' \in ExitCodes \cup {"raise"} /\ pc' \in Pcs
    BY <1>9 DEF AgentReturns, Resolved
  <2>3. log' \subseteq Nat /\ metered' \subseteq Nat
    BY <1>9 DEF AgentReturns, Metered
  <2>4. UNCHANGED <<outcome, dry, tries, rerun, decision, gated, cost, reports, first, calls>>
    BY <1>9 DEF AgentReturns
  <2>5. UNCHANGED <<backend, collector, orphan, copied, copy, execs>>
    BY <1>9 DEF AgentReturns
  <2> QED
    BY <2>1, <2>2, <2>3, <2>4, <2>5
<1>10. CASE Exit
  BY <1>10, Values DEF Exit, Stops, Ends
<1>11. CASE Judge
  <2>1. reports = <<>>
    BY <1>11 DEF Judge
  <2>2. CASE Report("rc")
    BY <1>11, <2>1, <2>2, ReportEnds, Values DEF Judge, Reports
  <2>3. CASE rc = "ok" /\ pc' = (IF rerun THEN "load" ELSE "cost") /\ UNCHANGED <<outcome, tries, reports>>
    BY <1>11, <2>3 DEF Judge
  <2>4. CASE Transient /\ tries' = tries + 1 /\ pc' = "enter" /\ UNCHANGED <<outcome, reports>>
    <3>1. tries' \in 0..MaxRetries
      BY <2>4 DEF Transient
    <3> QED
      BY <1>11, <2>4, <3>1 DEF Judge
  <2> QED
    BY <1>11, <2>2, <2>3, <2>4 DEF Judge
<1>12. CASE LoadCost
  <2>1. UNCHANGED <<backend, collector, orphan, copied, copy>>
    BY <1>12 DEF LoadCost
  <2>2. UNCHANGED <<verdict, route, log, metered>>
    BY <1>12 DEF LoadCost
  <2>3. cost' \subseteq Nat /\ pc' \in Pcs
    BY <1>12 DEF LoadCost
  <2>4. UNCHANGED <<outcome, rc, dry, tries, rerun, decision, gated, reports, first, calls, execs>>
    BY <1>12 DEF LoadCost
  <2> QED
    BY <2>1, <2>2, <2>3, <2>4
<1>13. CASE PostGates
  <2>1. reports = <<>>
    BY <1>13 DEF PostGates
  <2>2. CASE Report("gates")
    BY <1>13, <2>1, <2>2, ReportEnds, Values DEF PostGates, Reports
  <2>3. CASE ~Report("gates")
    <3>1. UNCHANGED <<backend, collector, orphan, copied, copy, verdict, route, log, metered>>
      BY <1>13 DEF PostGates
    <3>2. UNCHANGED <<rc, dry, tries, rerun, decision, cost, reports, first, calls, execs>>
      BY <1>13, <2>3 DEF PostGates
    <3>3. pc' \in Pcs /\ outcome' \in Outcomes /\ gated' \in Nat
      BY <1>13, <2>3 DEF PostGates, Ends
    <3> QED
      BY <3>1, <3>2, <3>3
  <2> QED
    BY <2>2, <2>3
<1>14. CASE LoadVerdict
  <2>1. UNCHANGED <<rc, dry, tries, decision, gated, cost, first, calls, execs>>
    BY <1>14 DEF LoadVerdict
  <2>2. UNCHANGED <<verdict, route, log, metered, backend, collector, orphan, copied, copy>>
    BY <1>14 DEF LoadVerdict
  <2>3. rerun' \in BOOLEAN
    BY <1>14 DEF LoadVerdict, MayRunAgain
  <2>4. CASE Report("noVerdict")
    <3>1. reports' = <<"noVerdict">> /\ pc' = "idle" /\ outcome' \in Outcomes
      BY <1>14, <2>4, ReportEnds DEF LoadVerdict, Reports
    <3>2. reports' \in Seq(Reports)
      BY <3>1, Values DEF Reports
    <3> QED
      BY <2>1, <2>2, <2>3, <3>1, <3>2
  <2>5. CASE ~Report("noVerdict")
    <3>1. UNCHANGED <<outcome, reports>> /\ pc' \in Pcs
      BY <1>14, <2>5 DEF LoadVerdict, MayRunAgain
    <3> QED
      BY <2>1, <2>2, <2>3, <3>1
  <2> QED
    BY <2>4, <2>5
<1>15. CASE Label
  <2>1. reports = <<>>
    BY <1>15 DEF Label
  <2>2. CASE Report("verdict")
    BY <1>15, <2>1, <2>2, ReportEnds, Values DEF Label, Reports
  <2>3. CASE ~Report("verdict")
    BY <1>15, <2>1, <2>3 DEF Label, Ends
  <2> QED
    BY <2>2, <2>3
<1>16. CASE UNCHANGED vars
  BY <1>16 DEF vars
<1> QED
  BY <1>1, <1>2, <1>3, <1>4, <1>5, <1>6, <1>7, <1>8, <1>9, <1>10, <1>11, <1>12, <1>13, <1>14,
     <1>15, <1>16 DEF Next

\* Every step keeps what is reported: nothing before the call ends.
LEMMA NextReported == IInv /\ [Next]_vars => Reported'
<1> SUFFICES ASSUME IInv, [Next]_vars PROVE Reported'
  OBVIOUS
<1> USE ConstantsAssumption DEF IInv, Reported, Seen, Judged, Exiting, Outcomes, callVars,
   files, session, meters
<1>1. CASE Begin
  BY <1>1 DEF Begin
<1>2. CASE PreGates
  BY <1>2 DEF PreGates, Ends
<1>3. CASE Hooks
  BY <1>3 DEF Hooks, Ends
<1>4. CASE Enter
  BY <1>4 DEF Enter, Ends
<1>5. CASE Setup
  BY <1>5 DEF Setup, SetsUp, Stops, Ends
<1>6. CASE Route
  BY <1>6 DEF Route
<1>7. CASE ClassifierReturns
  BY <1>7 DEF ClassifierReturns, Metered
<1>8. CASE Launch
  BY <1>8 DEF Launch
<1>9. CASE AgentReturns
  BY <1>9 DEF AgentReturns, Metered, Resolved
<1>10. CASE Exit
  BY <1>10 DEF Exit, Stops, Ends
<1>11. CASE Judge
  <2>1. reports = <<>>
    BY <1>11 DEF IInv, Reported, Judge
  <2>2. CASE Report("rc")
    BY <1>11, <2>1, <2>2, ReportEnds DEF Judge, Reports
  <2>3. CASE ~Report("rc")
    BY <1>11, <2>1, <2>3 DEF Judge, Transient
  <2> QED
    BY <2>2, <2>3
<1>12. CASE LoadCost
  BY <1>12 DEF LoadCost
<1>13. CASE PostGates
  <2>1. reports = <<>>
    BY <1>13 DEF IInv, Reported, PostGates
  <2>2. CASE Report("gates")
    BY <1>13, <2>1, <2>2, ReportEnds DEF PostGates, Reports
  <2>3. CASE ~Report("gates")
    BY <1>13, <2>1, <2>3 DEF PostGates, Ends
  <2> QED
    BY <2>2, <2>3
<1>14. CASE LoadVerdict
  <2>1. reports = <<>>
    BY <1>14 DEF IInv, Reported, LoadVerdict
  <2>2. CASE Report("noVerdict")
    BY <1>14, <2>1, <2>2, ReportEnds DEF LoadVerdict, MayRunAgain, Reports
  <2>3. CASE ~Report("noVerdict")
    BY <1>14, <2>1, <2>3 DEF LoadVerdict, MayRunAgain, Reports
  <2> QED
    BY <2>2, <2>3
<1>15. CASE Label
  <2>1. reports = <<>>
    BY <1>15 DEF IInv, Reported, Label
  <2>2. CASE Report("verdict")
    BY <1>15, <2>1, <2>2, ReportEnds DEF Label, Reports
  <2>3. CASE ~Report("verdict")
    BY <1>15, <2>1, <2>3 DEF Label, Ends
  <2> QED
    BY <2>2, <2>3
<1>16. CASE UNCHANGED vars
  BY <1>16 DEF vars
<1> QED
  BY <1>1, <1>2, <1>3, <1>4, <1>5, <1>6, <1>7, <1>8, <1>9, <1>10, <1>11, <1>12, <1>13, <1>14,
     <1>15, <1>16 DEF Next

\* Every step keeps which runs were made and which output the gates saw.
LEMMA NextSeen == IInv /\ [Next]_vars => Seen'
<1> SUFFICES ASSUME IInv, [Next]_vars PROVE Seen'
  OBVIOUS
<1> USE ConstantsAssumption DEF IInv, TypeOK, Seen, Judged, Exiting, InSession, callVars, files,
   session, meters
<1>1. CASE Begin
  BY <1>1 DEF Begin
<1>2. CASE PreGates
  BY <1>2 DEF PreGates, Ends
<1>3. CASE Hooks
  BY <1>3 DEF Hooks, Ends
<1>4. CASE Enter
  BY <1>4 DEF Enter, Ends
<1>5. CASE Setup
  BY <1>5 DEF Setup, SetsUp, Stops, Ends
<1>6. CASE Route
  BY <1>6 DEF Route
<1>7. CASE ClassifierReturns
  BY <1>7 DEF ClassifierReturns, Metered
<1>8. CASE Launch
  BY <1>8 DEF Launch
<1>9. CASE AgentReturns
  BY <1>9 DEF AgentReturns, Metered, Resolved
<1>10. CASE Exit
  BY <1>10 DEF Exit, Stops, Ends
<1>11. CASE Judge
  <2>1. reports = <<>>
    BY <1>11 DEF IInv, Reported, Judge
  <2>2. CASE Report("rc")
    BY <1>11, <2>1, <2>2, ReportEnds DEF Judge, Reports
  <2>3. CASE ~Report("rc")
    BY <1>11, <2>1, <2>3 DEF Judge, Transient
  <2> QED
    BY <2>2, <2>3
<1>12. CASE LoadCost
  BY <1>12 DEF LoadCost
<1>13. CASE PostGates
  <2>1. reports = <<>>
    BY <1>13 DEF IInv, Reported, PostGates
  <2>2. CASE Report("gates")
    BY <1>13, <2>1, <2>2, ReportEnds DEF PostGates, Reports
  <2>3. CASE ~Report("gates")
    BY <1>13, <2>1, <2>3 DEF PostGates, Ends
  <2> QED
    BY <2>2, <2>3
<1>14. CASE LoadVerdict
  <2>1. reports = <<>>
    BY <1>14 DEF IInv, Reported, LoadVerdict
  <2>2. CASE Report("noVerdict")
    BY <1>14, <2>1, <2>2, ReportEnds DEF LoadVerdict, MayRunAgain, Reports
  <2>3. CASE ~Report("noVerdict")
    BY <1>14, <2>1, <2>3 DEF LoadVerdict, MayRunAgain, Reports
  <2> QED
    BY <2>2, <2>3
<1>15. CASE Label
  <2>1. reports = <<>>
    BY <1>15 DEF IInv, Reported, Label
  <2>2. CASE Report("verdict")
    BY <1>15, <2>1, <2>2, ReportEnds DEF Label, Reports
  <2>3. CASE ~Report("verdict")
    BY <1>15, <2>1, <2>3 DEF Label, Ends
  <2> QED
    BY <2>2, <2>3
<1>16. CASE UNCHANGED vars
  BY <1>16 DEF vars
<1> QED
  BY <1>1, <1>2, <1>3, <1>4, <1>5, <1>6, <1>7, <1>8, <1>9, <1>10, <1>11, <1>12, <1>13, <1>14,
     <1>15, <1>16 DEF Next

\* Every step keeps who decides on the model.
LEMMA NextRoutes == IInv /\ [Next]_vars => Routes'
<1> SUFFICES ASSUME IInv, [Next]_vars PROVE Routes'
  OBVIOUS
<1> USE ConstantsAssumption DEF IInv, TypeOK, Seen, Routes, RouteOfThisCall, Launched, Judged,
   Exiting, InSession, callVars, files, session, meters
<1>1. CASE Begin
  BY <1>1 DEF Begin
<1>2. CASE PreGates
  BY <1>2 DEF PreGates, Ends
<1>3. CASE Hooks
  BY <1>3 DEF Hooks, Ends
<1>4. CASE Enter
  BY <1>4 DEF Enter, Ends
<1>5. CASE Setup
  BY <1>5 DEF Setup, SetsUp, Stops, Ends
<1>6. CASE Route
  BY <1>6 DEF Route
<1>7. CASE ClassifierReturns
  <2>1. PICK new \in Written(IF copied THEN copy ELSE route) :
          /\ copy' = IF copied THEN new ELSE copy
          /\ decision' # "fallback" => route' = new /\ new.valid
    BY <1>7 DEF ClassifierReturns
  <2>2. ~copied /\ new # NoFile => new.by = first + 1
    BY <1>7, <2>1 DEF ClassifierReturns, Written
  <2>3. new.valid => new # NoFile
    BY DEF NoFile
  <2>4. RouteOfThisCall'
    <3>1. CASE decision' = "fallback"
      BY <3>1
    <3>2. CASE decision' # "fallback"
      BY <1>7, <2>1, <2>2, <2>3, <3>2 DEF ClassifierReturns
    <3> QED
      BY <3>1, <3>2
  <2>5. ~copied' => copy' = NoFile
    BY <1>7, <2>1 DEF ClassifierReturns
  <2> QED
    BY <1>7, <2>1, <2>4, <2>5 DEF ClassifierReturns
<1>8. CASE Launch
  BY <1>8 DEF Launch
<1>9. CASE AgentReturns
  <2>1. ~copied => route' = route
    BY <1>9 DEF AgentReturns, Exists, NoFile
  <2> QED
    BY <1>9, <2>1 DEF AgentReturns
<1>10. CASE Exit
  BY <1>10 DEF Exit, Stops, Ends
<1>11. CASE Judge
  <2>1. reports = <<>>
    BY <1>11 DEF IInv, Reported, Judge
  <2>2. CASE Report("rc")
    BY <1>11, <2>1, <2>2, ReportEnds DEF Judge, Reports
  <2>3. CASE ~Report("rc")
    BY <1>11, <2>1, <2>3 DEF Judge, Transient
  <2> QED
    BY <2>2, <2>3
<1>12. CASE LoadCost
  BY <1>12 DEF LoadCost
<1>13. CASE PostGates
  <2>1. reports = <<>>
    BY <1>13 DEF IInv, Reported, PostGates
  <2>2. CASE Report("gates")
    BY <1>13, <2>1, <2>2, ReportEnds DEF PostGates, Reports
  <2>3. CASE ~Report("gates")
    BY <1>13, <2>1, <2>3 DEF PostGates, Ends
  <2> QED
    BY <2>2, <2>3
<1>14. CASE LoadVerdict
  <2>1. reports = <<>>
    BY <1>14 DEF IInv, Reported, LoadVerdict
  <2>2. CASE Report("noVerdict")
    BY <1>14, <2>1, <2>2, ReportEnds DEF LoadVerdict, MayRunAgain, Reports
  <2>3. CASE ~Report("noVerdict")
    BY <1>14, <2>1, <2>3 DEF LoadVerdict, MayRunAgain, Reports
  <2> QED
    BY <2>2, <2>3
<1>15. CASE Label
  <2>1. reports = <<>>
    BY <1>15 DEF IInv, Reported, Label
  <2>2. CASE Report("verdict")
    BY <1>15, <2>1, <2>2, ReportEnds DEF Label, Reports
  <2>3. CASE ~Report("verdict")
    BY <1>15, <2>1, <2>3 DEF Label, Ends
  <2> QED
    BY <2>2, <2>3
<1>16. CASE UNCHANGED vars
  BY <1>16 DEF vars
<1> QED
  BY <1>1, <1>2, <1>3, <1>4, <1>5, <1>6, <1>7, <1>8, <1>9, <1>10, <1>11, <1>12, <1>13, <1>14,
     <1>15, <1>16 DEF Next

\* Every step keeps the number of runs.
LEMMA NextCounted == IInv /\ [Next]_vars => RunsCounted'
<1> SUFFICES ASSUME IInv, [Next]_vars PROVE RunsCounted'
  OBVIOUS
<1> USE ConstantsAssumption DEF IInv, TypeOK, Seen, Routes, RunsCounted, Judged, Exiting,
   callVars, files, session, meters
<1>1. CASE Begin
  BY <1>1 DEF Begin
<1>2. CASE PreGates
  BY <1>2 DEF PreGates, Ends
<1>3. CASE Hooks
  BY <1>3 DEF Hooks, Ends
<1>4. CASE Enter
  BY <1>4 DEF Enter, Ends
<1>5. CASE Setup
  BY <1>5 DEF Setup, SetsUp, Stops, Ends
<1>6. CASE Route
  BY <1>6 DEF Route
<1>7. CASE ClassifierReturns
  BY <1>7 DEF ClassifierReturns, Metered
<1>8. CASE Launch
  BY <1>8 DEF Launch
<1>9. CASE AgentReturns
  BY <1>9 DEF AgentReturns, Metered, Resolved
<1>10. CASE Exit
  BY <1>10 DEF Exit, Stops, Ends
<1>11. CASE Judge
  <2>1. reports = <<>>
    BY <1>11 DEF IInv, Reported, Judge
  <2>2. CASE Report("rc")
    BY <1>11, <2>1, <2>2, ReportEnds DEF Judge, Reports
  <2>3. CASE ~Report("rc")
    BY <1>11, <2>1, <2>3 DEF Judge, Transient
  <2> QED
    BY <2>2, <2>3
<1>12. CASE LoadCost
  BY <1>12 DEF LoadCost
<1>13. CASE PostGates
  <2>1. reports = <<>>
    BY <1>13 DEF IInv, Reported, PostGates
  <2>2. CASE Report("gates")
    BY <1>13, <2>1, <2>2, ReportEnds DEF PostGates, Reports
  <2>3. CASE ~Report("gates")
    BY <1>13, <2>1, <2>3 DEF PostGates, Ends
  <2> QED
    BY <2>2, <2>3
<1>14. CASE LoadVerdict
  <2>1. reports = <<>>
    BY <1>14 DEF IInv, Reported, LoadVerdict
  <2>2. CASE Report("noVerdict")
    BY <1>14, <2>1, <2>2, ReportEnds DEF LoadVerdict, MayRunAgain, Reports
  <2>3. CASE ~Report("noVerdict")
    BY <1>14, <2>1, <2>3 DEF LoadVerdict, MayRunAgain, Reports
  <2> QED
    BY <2>2, <2>3
<1>15. CASE Label
  <2>1. reports = <<>>
    BY <1>15 DEF IInv, Reported, Label
  <2>2. CASE Report("verdict")
    BY <1>15, <2>1, <2>2, ReportEnds DEF Label, Reports
  <2>3. CASE ~Report("verdict")
    BY <1>15, <2>1, <2>3 DEF Label, Ends
  <2> QED
    BY <2>2, <2>3
<1>16. CASE UNCHANGED vars
  BY <1>16 DEF vars
<1> QED
  BY <1>1, <1>2, <1>3, <1>4, <1>5, <1>6, <1>7, <1>8, <1>9, <1>10, <1>11, <1>12, <1>13, <1>14,
     <1>15, <1>16 DEF Next

\* Every step keeps backend and collector within sessions.
LEMMA NextReleased == IInv /\ [Next]_vars => SessionsReleased'
<1> SUFFICES ASSUME IInv, [Next]_vars PROVE SessionsReleased'
  OBVIOUS
<1> USE ConstantsAssumption DEF IInv, Reported, Seen, SessionsReleased, InSession, callVars,
   files, session, meters
<1>1. CASE Begin
  BY <1>1 DEF Begin, TypeOK
<1>2. CASE PreGates
  BY <1>2 DEF PreGates, Ends
<1>3. CASE Hooks
  BY <1>3 DEF Hooks, Ends
<1>4. CASE Enter
  BY <1>4 DEF Enter, Ends
<1>5. CASE Setup
  BY <1>5 DEF Setup, SetsUp, Stops, Ends
<1>6. CASE Route
  BY <1>6 DEF Route
<1>7. CASE ClassifierReturns
  BY <1>7 DEF ClassifierReturns, Metered
<1>8. CASE Launch
  BY <1>8 DEF Launch
<1>9. CASE AgentReturns
  BY <1>9 DEF AgentReturns, Metered, Resolved
<1>10. CASE Exit
  BY <1>10 DEF Exit, Stops, Ends
<1>11. CASE Judge
  <2>1. reports = <<>>
    BY <1>11 DEF IInv, Reported, Judge
  <2>2. CASE Report("rc")
    BY <1>11, <2>1, <2>2, ReportEnds DEF Judge, Reports
  <2>3. CASE ~Report("rc")
    BY <1>11, <2>1, <2>3 DEF Judge, Transient
  <2> QED
    BY <2>2, <2>3
<1>12. CASE LoadCost
  BY <1>12 DEF LoadCost
<1>13. CASE PostGates
  <2>1. reports = <<>>
    BY <1>13 DEF IInv, Reported, PostGates
  <2>2. CASE Report("gates")
    BY <1>13, <2>1, <2>2, ReportEnds DEF PostGates, Reports
  <2>3. CASE ~Report("gates")
    BY <1>13, <2>1, <2>3 DEF PostGates, Ends
  <2> QED
    BY <2>2, <2>3
<1>14. CASE LoadVerdict
  <2>1. reports = <<>>
    BY <1>14 DEF IInv, Reported, LoadVerdict
  <2>2. CASE Report("noVerdict")
    BY <1>14, <2>1, <2>2, ReportEnds DEF LoadVerdict, MayRunAgain, Reports
  <2>3. CASE ~Report("noVerdict")
    BY <1>14, <2>1, <2>3 DEF LoadVerdict, MayRunAgain, Reports
  <2> QED
    BY <2>2, <2>3
<1>15. CASE Label
  <2>1. reports = <<>>
    BY <1>15 DEF IInv, Reported, Label
  <2>2. CASE Report("verdict")
    BY <1>15, <2>1, <2>2, ReportEnds DEF Label, Reports
  <2>3. CASE ~Report("verdict")
    BY <1>15, <2>1, <2>3 DEF Label, Ends
  <2> QED
    BY <2>2, <2>3
<1>16. CASE UNCHANGED vars
  BY <1>16 DEF vars
<1> QED
  BY <1>1, <1>2, <1>3, <1>4, <1>5, <1>6, <1>7, <1>8, <1>9, <1>10, <1>11, <1>12, <1>13, <1>14,
     <1>15, <1>16 DEF Next

\* The first call finds nothing of an earlier one.
LEMMA InitIInv == Init => IInv
<1> SUFFICES ASSUME Init PROVE IInv
  OBVIOUS
<1>1. reports \in Seq(Reports) /\ verdict \in Files /\ route \in Files
  BY Values DEF Init
<1>2. tries \in 0..MaxRetries /\ calls \in 0..MaxCalls
  BY ConstantsAssumption DEF Init
<1>3. TypeOK
  BY <1>1, <1>2 DEF Init, TypeOK, Pcs, Outcomes, ExitCodes, Sources, InSession
<1>4. Reported /\ Seen /\ Routes /\ RunsCounted /\ SessionsReleased
  BY DEF Init, Reported, Seen, Routes, RunsCounted, SessionsReleased, RouteOfThisCall, InSession,
         Judged, Launched, Exiting
<1> QED
  BY <1>3, <1>4 DEF IInv

\* IInv holds in every reachable state.
LEMMA IInvHolds == Spec => []IInv
<1>1. IInv /\ [Next]_vars => IInv'
  BY NextTyped, NextReported, NextSeen, NextRoutes, NextCounted, NextReleased DEF IInv
<1> QED
  BY <1>1, InitIInv, PTL DEF Spec

\* Every reachable state is well-typed.
THEOREM SkillTyped == Spec => []TypeOK
<1>1. IInv => TypeOK
  BY DEF IInv
<1> QED
  BY <1>1, IInvHolds, PTL

\* A ticket is reported at most once, and exactly once by a call that returned.
THEOREM OneReport == Spec => []ReportedOnce
<1>1. IInv => ReportedOnce
  <2> SUFFICES ASSUME IInv PROVE ReportedOnce
    OBVIOUS
  <2>1. reports = <<>> => Len(reports) = 0
    OBVIOUS
  <2>2. reports # <<>> => Len(reports) = 1
    BY DEF IInv, Reported
  <2>3. Len(reports) <= 1
    BY <2>1, <2>2
  <2>4. pc = "idle" /\ outcome \in {"failed", "done"} => Len(reports) = 1
    BY <2>2 DEF IInv, Reported
  <2>5. outcome = "blocked" => reports = <<>> /\ execs = first
    BY DEF IInv, Reported
  <2> QED
    BY <2>3, <2>4, <2>5 DEF ReportedOnce
<1> QED
  BY <1>1, IInvHolds, PTL

\* A verdict is reported only after a run that exited with 0 and post-gates
\* that saw the output of a run of this call.
THEOREM VerdictIsGated == Spec => []VerdictOnlyAfterGates
<1>1. IInv => VerdictOnlyAfterGates
  <2> SUFFICES ASSUME IInv, NEW i \in DOMAIN reports, reports[i] = "verdict"
               PROVE  reports = <<"verdict">> /\ rc = "ok" /\ (dry \/ gated > first)
    BY DEF VerdictOnlyAfterGates
  <2>1. PICK k \in Reports : reports = <<k>>
    BY DEF IInv, Reported
  <2>2. k = "verdict"
    BY <2>1
  <2> QED
    BY <2>1, <2>2 DEF IInv, Reported
<1> QED
  BY <1>1, IInvHolds, PTL

\* No session outlives itself with a backend or a collector it holds; a backend
\* whose stop raised is left, and then the call raises.
THEOREM NothingLeftRunning == Spec => []SessionsReleased
<1>1. IInv => SessionsReleased
  BY DEF IInv
<1> QED
  BY <1>1, IInvHolds, PTL

\* Where runs work on work_dir itself, a classifier's rating comes from the
\* classifier of the same call.
THEOREM RouteIsOwn == Spec => []RouteOfThisCall
<1>1. IInv => RouteOfThisCall
  BY DEF IInv, Routes
<1> QED
  BY <1>1, IInvHolds, PTL

\* The number of runs of a call is bounded by its retries.
THEOREM RunsStayBounded == Spec => []RunsBounded
<1>1. IInv => RunsBounded
  BY ConstantsAssumption DEF IInv, TypeOK, RunsCounted, RunsBounded
<1> QED
  BY <1>1, IInvHolds, PTL

\* All runs of a call use the model of one decision, whatever is retried.
THEOREM OneDecision == Spec => DecidedOnce
<1>1. IInv /\ [Next]_vars => [decision # "none" /\ pc # "idle" => decision' = decision]_vars
  <2> SUFFICES ASSUME IInv, Next, decision # "none", pc # "idle" PROVE decision' = decision
    BY DEF vars
  <2>1. pc \notin {"route", "classifier"}
    BY DEF IInv, Routes
  <2> QED
    BY <2>1 DEF Next, Begin, PreGates, Hooks, Enter, Setup, Route, ClassifierReturns, Launch,
       AgentReturns, Exit, Judge, LoadCost, PostGates, LoadVerdict, Label, callVars
<1> QED
  BY <1>1, IInvHolds, PTL DEF Spec, DecidedOnce

=============================================================================
