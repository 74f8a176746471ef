--------------------------- MODULE AdminAccessProofs ---------------------------
(***************************************************************************)
(* What module AdminAccess guarantees for any number of concurrent requests *)
(* and runs of the command line, of passwords and of generations; and what  *)
(* module LoginLimiter, the door of the same account, guarantees for any    *)
(* number of threads and addresses and any size of the table.               *)
(***************************************************************************)
EXTENDS AdminAccess, LoginLimiter, FiniteSetTheorems, SequenceTheorems, WellFoundedInduction, TLAPS

--------------------------------------------------------------------------------
(* Types *)

LEMMA IdleIsTyped ==
  /\ NoRows \in Rows
  /\ Idle \in Calls /\ Idle.at = "idle"
  /\ AtItsPoint(Idle)
BY MaxGenAssumption DEF Idle, NoRows, Rows, Calls, Ops, Points, AtItsPoint

\* A step replaces one call by another of the right type.
LEMMA StepTypes ==
  ASSUME TypeOK, NEW r \in Requests, NEW call \in Calls, AtItsPoint(call), Step(r, call)
  PROVE  req' \in [Requests -> Calls] /\ \A q \in Requests : AtItsPoint(req'[q])
BY DEF TypeOK, Step

LEMMA AnswerTypes ==
  ASSUME TypeOK, NEW r \in Requests, Answer(r)
  PROVE  req' \in [Requests -> Calls] /\ \A q \in Requests : AtItsPoint(req'[q])
BY IdleIsTyped, StepTypes DEF Answer

LEMMA GotoTypes ==
  ASSUME TypeOK, NEW r \in Requests, NEW point \in Points, Goto(r, point), req[r].at # "idle",
         point \notin {"verify", "check", "hash", "gen"},
         point = "open" => req[r].op = "setup" /\ req[r].new \in Passwords
  PROVE  req' \in [Requests -> Calls] /\ \A q \in Requests : AtItsPoint(req'[q])
<1> DEFINE call == [req[r] EXCEPT !.at = point, !.rows = NoRows]
<1>1. req[r] \in Calls /\ AtItsPoint(req[r])
  BY DEF TypeOK
<1>2. call \in Calls /\ AtItsPoint(call)
  BY <1>1, IdleIsTyped DEF Calls, AtItsPoint
<1> QED
  BY <1>2, StepTypes DEF Goto

LEMMA ReadRowsTypes ==
  ASSUME TypeOK, NEW r \in Requests, NEW point \in Points, ReadRows(r, point), req[r].at # "idle",
         point \notin {"verify", "check", "open"}, point = "hash" => req[r].new \in Passwords,
         point = "gen" => db.gen < MaxGen
  PROVE  req' \in [Requests -> Calls] /\ \A q \in Requests : AtItsPoint(req'[q])
<1> DEFINE call == [req[r] EXCEPT !.at = point, !.rows = db]
<1>1. req[r] \in Calls /\ db \in Rows /\ AtItsPoint(req[r])
  BY DEF TypeOK
<1>2. call \in Calls /\ AtItsPoint(call)
  BY <1>1 DEF Calls, AtItsPoint
<1> QED
  BY <1>2, StepTypes DEF ReadRows

LEMMA FailTypes ==
  ASSUME TypeOK, NEW r \in Requests, Fail(r)
  PROVE  TypeOK'
<1>1. BrokenBy(req[r]) \subseteq Breaches
  BY DEF BrokenBy, Breaches
<1> QED
  BY <1>1, AnswerTypes DEF Fail, TypeOK

LEMMA WriteGenerationTypes ==
  ASSUME TypeOK, NEW r \in Requests, WriteGeneration(r)
  PROVE  TypeOK'
<1> DEFINE next == req[r].rows.gen + 1
<1>1. req[r].at = "gen" /\ req[r] \in Calls /\ req[r].rows.gen < MaxGen
  BY DEF WriteGeneration, TypeOK, AtItsPoint
<1>2. next \in 0..MaxGen
  BY <1>1, MaxGenAssumption DEF Calls, Rows
<1>3. CASE Fail(r)
  BY <1>3, FailTypes
<1>4. CASE /\ db' = [db EXCEPT !.gen = next]
           /\ broken' = IF next > db.gen THEN broken \ {"rotation"}
                        ELSE IF next < db.gen THEN broken \cup {"generation"} ELSE broken
           /\ IF req[r].op = "setup" THEN Goto(r, "open") ELSE Answer(r)
           /\ UNCHANGED cookies
  <2>1. db' \in Rows
    BY <1>2, <1>4 DEF TypeOK, Rows
  <2>2. broken' \in SUBSET Breaches
    BY <1>4 DEF TypeOK, Breaches
  <2>3. req' \in [Requests -> Calls] /\ \A q \in Requests : AtItsPoint(req'[q])
    <3>1. CASE req[r].op = "setup"
      <4>1. req[r].new \in Passwords
        BY <1>1, <3>1 DEF TypeOK, AtItsPoint
      <4> QED
        BY <1>1, <1>4, <3>1, <4>1, GotoTypes DEF Points
    <3>2. CASE req[r].op # "setup"
      BY <1>4, <3>2, AnswerTypes
    <3> QED
      BY <3>1, <3>2
  <2> QED
    BY <1>4, <2>1, <2>2, <2>3 DEF TypeOK
<1> QED
  BY <1>3, <1>4 DEF WriteGeneration

LEMMA NextTypes ==
  ASSUME TypeOK, [Next]_vars
  PROVE  TypeOK'
<1> USE IdleIsTyped
<1>1. ASSUME NEW r \in Requests, LoginVerifies(r) PROVE TypeOK'
  <2> DEFINE call == [Idle EXCEPT !.at = "open", !.rows = db]
  <2>1. PICK pw \in Passwords : Verifies(db, pw)
    BY <1>1 DEF LoginVerifies
  <2>2. db.hash \in Passwords
    BY <2>1 DEF Verifies
  <2>3. call \in Calls /\ AtItsPoint(call)
    BY <2>2 DEF TypeOK, Idle, Calls, Points, Ops, AtItsPoint
  <2> QED
    BY <1>1, <2>3, StepTypes DEF LoginVerifies, TypeOK
<1>2. ASSUME NEW r \in Requests, LoginOpensSession(r) PROVE TypeOK'
  <2>1. [gen |-> req[r].rows.gen, pw |-> req[r].rows.hash] \in Cookies
    BY <1>2 DEF LoginOpensSession, TypeOK, AtItsPoint, Calls, Rows, Cookies
  <2> QED
    BY <1>2, <2>1, AnswerTypes DEF LoginOpensSession, TypeOK
<1>3. ASSUME NEW r \in Requests, SetupOpensSession(r) PROVE TypeOK'
  <2>1. [gen |-> db.gen, pw |-> req[r].new] \in Cookies
    BY <1>3 DEF SetupOpensSession, TypeOK, AtItsPoint, Rows, Cookies
  <2> QED
    BY <1>3, <2>1, AnswerTypes DEF SetupOpensSession, TypeOK, Breaches
<1>4. ASSUME NEW r \in Requests, Logout(r) PROVE TypeOK'
  <2> DEFINE call == [Idle EXCEPT !.op = "logout", !.at = "readGen"]
  <2>1. call \in Calls /\ AtItsPoint(call)
    BY DEF Idle, Calls, Points, Ops, AtItsPoint
  <2> QED
    BY <1>4, <2>1, StepTypes DEF Logout, TypeOK
<1>5. ASSUME NEW r \in Requests, NEW op \in {"setup", "create", "force"}, NEW pw \in Passwords,
             NEW mail \in BOOLEAN, Begin(r, op, pw, mail)
      PROVE  TypeOK'
  <2> DEFINE call == [Idle EXCEPT !.op = op, !.at = "check", !.new = pw, !.mail = mail]
  <2>1. call \in Calls /\ AtItsPoint(call)
    BY DEF Idle, Calls, Points, Ops, AtItsPoint
  <2> QED
    BY <1>5, <2>1, StepTypes DEF Begin, TypeOK
<1>6. ASSUME NEW r \in Requests, BeginEmailOnly(r) PROVE TypeOK'
  <2> DEFINE call == [Idle EXCEPT !.op = "email", !.at = "readIdentity", !.mail = TRUE]
  <2>1. call \in Calls /\ AtItsPoint(call)
    BY DEF Idle, Calls, Points, Ops, AtItsPoint
  <2> QED
    BY <1>6, <2>1, StepTypes DEF BeginEmailOnly, TypeOK
<1>7. ASSUME NEW r \in Requests, NEW pw \in Passwords, AdmitChange(r, pw) PROVE TypeOK'
  <2> DEFINE call == [Idle EXCEPT !.op = "change", !.at = "verify", !.new = pw]
  <2>1. call \in Calls /\ AtItsPoint(call)
    BY DEF Idle, Calls, Points, Ops, AtItsPoint
  <2>2. Step(r, call) /\ UNCHANGED <<db, cookies, broken>>
    BY <1>7 DEF AdmitChange
  <2> QED
    BY <2>1, <2>2, StepTypes DEF TypeOK
<1>8. ASSUME NEW r \in Requests, VerifyCurrent(r) PROVE TypeOK'
  <2>1. ReadRows(r, "hash") /\ req[r].at # "idle" /\ req[r].new \in Passwords /\ UNCHANGED <<db, cookies, broken>>
    BY <1>8 DEF VerifyCurrent, TypeOK, AtItsPoint
  <2> QED
    BY <2>1, ReadRowsTypes DEF TypeOK, Points
<1>9. ASSUME NEW r \in Requests, CheckAccount(r) PROVE TypeOK'
  <2>1. req[r].at # "idle" /\ req[r].new \in Passwords /\ UNCHANGED <<db, cookies, broken>>
    BY <1>9 DEF CheckAccount, TypeOK, AtItsPoint
  <2>2. Answer(r) \/ ReadRows(r, "hash")
    BY <1>9 DEF CheckAccount
  <2> QED
    BY <2>1, <2>2, AnswerTypes, ReadRowsTypes DEF TypeOK, Points
<1>10. ASSUME NEW r \in Requests, WriteHash(r) PROVE TypeOK'
  <2>1. CASE Fail(r)
    BY <2>1, FailTypes
  <2>2. CASE /\ db' = [db EXCEPT !.hash = req[r].new]
             /\ Goto(r, IF req[r].mail THEN "readIdentity" ELSE "readGen")
             /\ UNCHANGED <<cookies, broken>>
    <3>1. req[r].at # "idle" /\ req[r].new \in Passwords
      BY <1>10 DEF WriteHash, TypeOK, AtItsPoint
    <3>2. db' \in Rows
      BY <2>2, <3>1 DEF TypeOK, Rows
    <3>3. Goto(r, "readIdentity") \/ Goto(r, "readGen")
      BY <2>2
    <3> QED
      BY <2>2, <3>1, <3>2, <3>3, GotoTypes DEF TypeOK, Points
  <2> QED
    BY <1>10, <2>1, <2>2 DEF WriteHash
<1>11. ASSUME NEW r \in Requests, ReadIdentity(r) PROVE TypeOK'
  <2>1. ReadRows(r, "identity") /\ req[r].at # "idle" /\ UNCHANGED <<db, cookies, broken>>
    BY <1>11 DEF ReadIdentity
  <2> QED
    BY <2>1, ReadRowsTypes DEF TypeOK, Points
<1>12. ASSUME NEW r \in Requests, WriteIdentity(r) PROVE TypeOK'
  <2>1. CASE Fail(r)
    BY <2>1, FailTypes
  <2>2. CASE /\ db' = [db EXCEPT !.identity = TRUE]
             /\ IF req[r].op = "email" THEN Answer(r) ELSE Goto(r, "readGen")
             /\ UNCHANGED <<cookies, broken>>
    <3>1. db' \in Rows
      BY <2>2 DEF TypeOK, Rows
    <3>2. req[r].at # "idle" /\ (Answer(r) \/ Goto(r, "readGen"))
      BY <1>12, <2>2 DEF WriteIdentity
    <3> QED
      BY <2>2, <3>1, <3>2, AnswerTypes, GotoTypes DEF TypeOK, Points
  <2> QED
    BY <1>12, <2>1, <2>2 DEF WriteIdentity
<1>13. ASSUME NEW r \in Requests, ReadGeneration(r) PROVE TypeOK'
  <2>1. ReadRows(r, "gen") /\ req[r].at # "idle" /\ db.gen < MaxGen /\ UNCHANGED <<db, cookies, broken>>
    BY <1>13 DEF ReadGeneration
  <2> QED
    BY <2>1, ReadRowsTypes DEF TypeOK, Points
<1>14. ASSUME NEW r \in Requests, WriteGeneration(r) PROVE TypeOK'
  BY <1>14, WriteGenerationTypes
<1>15. ASSUME NEW r \in Requests, Abort(r) PROVE TypeOK'
  BY <1>15, FailTypes DEF Abort
<1>16. CASE UNCHANGED vars
  BY <1>16 DEF vars, TypeOK
<1> QED
  BY <1>1, <1>2, <1>3, <1>4, <1>5, <1>6, <1>7, <1>8, <1>9, <1>10, <1>11, <1>12, <1>13,
     <1>14, <1>15, <1>16 DEF Next

LEMMA InitTypes == Init => TypeOK
BY IdleIsTyped DEF Init, TypeOK

\* The rows, the cookies and the calls keep their types, and every call its place in its
\* own operation.
THEOREM TypeCorrect == Spec => []TypeOK
<1>1. TypeOK /\ [Next]_vars => TypeOK'
  BY NextTypes
<1> QED
  BY InitTypes, <1>1, PTL DEF Spec

--------------------------------------------------------------------------------
(* The account is claimed once *)

\* What a request has established before it writes the hash: its operation is one that
\* may write it, the copy had no hash unless the operation replaces one, and it carries
\* an address unless there is one already.
Placed(c) ==
  /\ c.at \in {"verify", "check", "hash"} => c.op \in {"setup", "create", "force", "change"}
  /\ c.at = "verify" => c.op = "change"
  /\ c.at = "hash" => c.rows.hash = NoPassword \/ Replaces(c.op)

Addressed(c) == c.at \in {"check", "hash"} => c.mail \/ db.identity

PlacedOK == \A r \in Requests : Placed(req[r]) /\ Addressed(req[r])

\* A request that moves on keeps its operation, its password and its address.
Moved(c, point, rows) == [c EXCEPT !.at = point, !.rows = rows]

LEMMA MovedCall ==
  ASSUME NEW c \in Calls, NEW point, NEW rows
  PROVE  /\ Moved(c, point, rows).at = point
         /\ Moved(c, point, rows).rows = rows
         /\ Moved(c, point, rows).op = c.op
         /\ Moved(c, point, rows).mail = c.mail
         /\ Moved(c, point, rows).new = c.new
BY DEF Moved, Calls

LEMMA MovingSteps ==
  ASSUME NEW r \in Requests, NEW point
  PROVE  /\ Goto(r, point) => Step(r, Moved(req[r], point, NoRows))
         /\ ReadRows(r, point) => Step(r, Moved(req[r], point, db))
BY DEF Goto, ReadRows, Step, Moved

LEMMA StepPlaced ==
  ASSUME TypeOK, PlacedOK, NEW r \in Requests, NEW call, Step(r, call), Placed(call),
         db.identity => db'.identity,
         call.at \in {"check", "hash"} => call.mail \/ db'.identity
  PROVE  PlacedOK'
<1> SUFFICES ASSUME NEW q \in Requests PROVE Placed(req'[q]) /\ Addressed(req[q])'
  BY DEF PlacedOK, Placed
<1>1. req'[q] = IF q = r THEN call ELSE req[q]
  BY DEF Step, TypeOK
<1>2. CASE q = r
  BY <1>1, <1>2 DEF Addressed
<1>3. CASE q # r
  BY <1>1, <1>3 DEF PlacedOK, Placed, Addressed
<1> QED
  BY <1>2, <1>3

\* A request that is over, or past the hash, has nothing to establish.
LEMMA PastTheHash ==
  ASSUME TypeOK, PlacedOK, NEW r \in Requests, NEW call, Step(r, call),
         call.at \notin {"verify", "check", "hash"}, db.identity => db'.identity
  PROVE  PlacedOK'
BY StepPlaced DEF Placed

LEMMA AnswerPlaced ==
  ASSUME TypeOK, PlacedOK, NEW r \in Requests, Answer(r), db.identity => db'.identity
  PROVE  PlacedOK'
BY PastTheHash, IdleIsTyped DEF Answer

LEMMA MovePlaced ==
  ASSUME TypeOK, PlacedOK, NEW r \in Requests, NEW point, Goto(r, point) \/ ReadRows(r, point),
         point \notin {"verify", "check", "hash"}, db.identity => db'.identity
  PROVE  PlacedOK'
<1>1. req[r] \in Calls
  BY DEF TypeOK
<1>2. CASE Goto(r, point)
  <2>1. Step(r, Moved(req[r], point, NoRows)) /\ Moved(req[r], point, NoRows).at = point
    BY <1>1, <1>2, MovingSteps, MovedCall
  <2> QED
    BY <2>1, PastTheHash
<1>3. CASE ReadRows(r, point)
  <2>1. Step(r, Moved(req[r], point, db)) /\ Moved(req[r], point, db).at = point
    BY <1>1, <1>3, MovingSteps, MovedCall
  <2> QED
    BY <2>1, PastTheHash
<1> QED
  BY <1>2, <1>3

LEMMA FailPlaced ==
  ASSUME TypeOK, PlacedOK, NEW r \in Requests, Fail(r)
  PROVE  PlacedOK'
BY AnswerPlaced DEF Fail

LEMMA NextPlaced ==
  ASSUME TypeOK, PlacedOK, [Next]_vars
  PROVE  PlacedOK'
<1>1. ASSUME NEW r \in Requests, LoginVerifies(r) PROVE PlacedOK'
  BY <1>1, PastTheHash DEF LoginVerifies, Idle
<1>2. ASSUME NEW r \in Requests, LoginOpensSession(r) PROVE PlacedOK'
  BY <1>2, AnswerPlaced DEF LoginOpensSession
<1>3. ASSUME NEW r \in Requests, SetupOpensSession(r) PROVE PlacedOK'
  BY <1>3, AnswerPlaced DEF SetupOpensSession
<1>4. ASSUME NEW r \in Requests, Logout(r) PROVE PlacedOK'
  BY <1>4, PastTheHash DEF Logout, Idle
<1>5. ASSUME NEW r \in Requests, NEW op \in {"setup", "create", "force"}, NEW pw \in Passwords,
             NEW mail \in BOOLEAN, Begin(r, op, pw, mail)
      PROVE  PlacedOK'
  <2> DEFINE call == [Idle EXCEPT !.op = op, !.at = "check", !.new = pw, !.mail = mail]
  <2>1. call.at = "check" /\ call.op = op /\ call.mail = mail
    BY DEF Idle
  <2>2. Placed(call)
    BY <2>1 DEF Placed
  <2>3. Step(r, call) /\ db' = db /\ (mail \/ db.identity)
    BY <1>5 DEF Begin
  <2> QED
    BY <2>1, <2>2, <2>3, StepPlaced
<1>6. ASSUME NEW r \in Requests, BeginEmailOnly(r) PROVE PlacedOK'
  BY <1>6, PastTheHash DEF BeginEmailOnly, Idle
<1>7. ASSUME NEW r \in Requests, NEW pw \in Passwords, AdmitChange(r, pw) PROVE PlacedOK'
  <2> DEFINE call == [Idle EXCEPT !.op = "change", !.at = "verify", !.new = pw]
  <2>1. call.at = "verify" /\ call.op = "change"
    BY DEF Idle
  <2>2. Step(r, call) /\ db' = db
    BY <1>7 DEF AdmitChange
  <2> QED
    BY <2>1, <2>2, StepPlaced DEF Placed
<1>8. ASSUME NEW r \in Requests, VerifyCurrent(r) PROVE PlacedOK'
  <2> DEFINE call == Moved(req[r], "hash", db)
  <2>1. PICK pw \in Passwords : Verifies(db, pw)
    BY <1>8 DEF VerifyCurrent
  <2>2. req[r].op = "change" /\ db.identity
    BY <1>8, <2>1 DEF VerifyCurrent, PlacedOK, Placed, Verifies
  <2>3. Step(r, call) /\ db' = db
    BY <1>8, MovingSteps DEF VerifyCurrent
  <2>4. call.at = "hash" /\ call.op = "change"
    BY <2>2, MovedCall DEF TypeOK
  <2> QED
    BY <2>2, <2>3, <2>4, StepPlaced DEF Placed, Replaces
<1>9. ASSUME NEW r \in Requests, CheckAccount(r) PROVE PlacedOK'
  <2>1. req[r].op \in {"setup", "create", "force", "change"} /\ (req[r].mail \/ db.identity) /\ db' = db
    BY <1>9 DEF CheckAccount, PlacedOK, Placed, Addressed
  <2>2. CASE Answer(r)
    BY <2>1, <2>2, AnswerPlaced
  <2>3. CASE ReadRows(r, "hash") /\ (db.hash = NoPassword \/ Replaces(req[r].op))
    <3> DEFINE call == Moved(req[r], "hash", db)
    <3>1. call.at = "hash" /\ call.op = req[r].op /\ call.mail = req[r].mail /\ call.rows = db
      BY MovedCall DEF TypeOK
    <3>2. Placed(call)
      BY <2>1, <2>3, <3>1 DEF Placed
    <3>3. Step(r, call)
      BY <2>3, MovingSteps
    <3> QED
      BY <2>1, <3>1, <3>2, <3>3, StepPlaced
  <2> QED
    BY <1>9, <2>2, <2>3 DEF CheckAccount
<1>10. ASSUME NEW r \in Requests, WriteHash(r) PROVE PlacedOK'
  <2>1. CASE Fail(r)
    BY <2>1, FailPlaced
  <2>2. CASE /\ db' = [db EXCEPT !.hash = req[r].new]
             /\ Goto(r, IF req[r].mail THEN "readIdentity" ELSE "readGen")
    <3>1. db'.identity = db.identity
      BY <2>2 DEF TypeOK, Rows
    <3>2. Goto(r, "readIdentity") \/ Goto(r, "readGen")
      BY <2>2
    <3> QED
      BY <3>1, <3>2, MovePlaced
  <2> QED
    BY <1>10, <2>1, <2>2 DEF WriteHash
<1>11. ASSUME NEW r \in Requests, ReadIdentity(r) PROVE PlacedOK'
  BY <1>11, MovePlaced DEF ReadIdentity
<1>12. ASSUME NEW r \in Requests, WriteIdentity(r) PROVE PlacedOK'
  <2>1. CASE Fail(r)
    BY <2>1, FailPlaced
  <2>2. CASE /\ db' = [db EXCEPT !.identity = TRUE]
             /\ IF req[r].op = "email" THEN Answer(r) ELSE Goto(r, "readGen")
    <3>1. db'.identity
      BY <2>2 DEF TypeOK, Rows
    <3>2. Answer(r) \/ Goto(r, "readGen")
      BY <2>2
    <3> QED
      BY <3>1, <3>2, AnswerPlaced, MovePlaced
  <2> QED
    BY <1>12, <2>1, <2>2 DEF WriteIdentity
<1>13. ASSUME NEW r \in Requests, ReadGeneration(r) PROVE PlacedOK'
  BY <1>13, MovePlaced DEF ReadGeneration
<1>14. ASSUME NEW r \in Requests, WriteGeneration(r) PROVE PlacedOK'
  <2>1. CASE Fail(r)
    BY <2>1, FailPlaced
  <2>2. CASE /\ db' = [db EXCEPT !.gen = req[r].rows.gen + 1]
             /\ IF req[r].op = "setup" THEN Goto(r, "open") ELSE Answer(r)
    <3>1. db'.identity = db.identity
      BY <2>2 DEF TypeOK, Rows
    <3>2. Answer(r) \/ Goto(r, "open")
      BY <2>2
    <3> QED
      BY <3>1, <3>2, AnswerPlaced, MovePlaced
  <2> QED
    BY <1>14, <2>1, <2>2 DEF WriteGeneration
<1>15. ASSUME NEW r \in Requests, Abort(r) PROVE PlacedOK'
  BY <1>15, FailPlaced DEF Abort
<1>16. CASE UNCHANGED vars
  BY <1>16 DEF vars, PlacedOK, Placed, Addressed
<1> QED
  BY <1>1, <1>2, <1>3, <1>4, <1>5, <1>6, <1>7, <1>8, <1>9, <1>10, <1>11, <1>12, <1>13,
     <1>14, <1>15, <1>16 DEF Next

LEMMA InitPlaced == Init => PlacedOK
BY IdleIsTyped DEF Init, PlacedOK, Placed, Addressed

\* Only WriteHash touches the hash, and only where the copy allowed it.
LEMMA HashSteps ==
  ASSUME TypeOK, PlacedOK, [Next]_vars, db'.hash # db.hash
  PROVE  db.hash = NoPassword \/ \E r \in Requests : req[r].at = "hash" /\ Replaces(req[r].op)
<1>1. PICK r \in Requests : WriteHash(r) \/ WriteIdentity(r) \/ WriteGeneration(r) \/ db' = db
  BY DEF Next, vars, LoginVerifies, LoginOpensSession, SetupOpensSession, Logout, Begin,
         BeginEmailOnly, AdmitChange, VerifyCurrent, CheckAccount, ReadIdentity,
         ReadGeneration, Abort, Fail
<1>2. CASE WriteHash(r)
  BY <1>2 DEF WriteHash, Fail, PlacedOK, Placed
<1>3. CASE WriteIdentity(r)
  BY <1>3 DEF WriteIdentity, Fail, TypeOK, Rows
<1>4. CASE WriteGeneration(r)
  BY <1>4 DEF WriteGeneration, Fail, TypeOK, Rows
<1> QED
  BY <1>1, <1>2, <1>3, <1>4

\* The account is claimed once, whatever the number of concurrent set-ups: what a request
\* saw before it wrote (PlacedOK) is enough, because the INSERT refuses a second row.
THEOREM AccountClaimedOnce == Spec => AccountIsClaimedOnce
<1>1. Init => TypeOK /\ PlacedOK
  BY InitTypes, InitPlaced
<1>2. TypeOK /\ PlacedOK /\ [Next]_vars => TypeOK' /\ PlacedOK'
  BY NextTypes, NextPlaced
<1>3. TypeOK /\ PlacedOK /\ [Next]_vars
      => [db'.hash # db.hash
            => \/ db.hash = NoPassword
               \/ \E r \in Requests : req[r].at = "hash" /\ Replaces(req[r].op)]_vars
  BY HashSteps
<1> QED
  BY <1>1, <1>2, <1>3, PTL DEF Spec, AccountIsClaimedOnce

--------------------------------------------------------------------------------
(* The account has an address *)

\* A request that has stored the hash and is about to store the address.
Bringing(c) == c.mail /\ Unfinished(c) /\ c.at \in {"readIdentity", "identity"}

AddressComing == "identity" \in broken \/ \E r \in Requests : Bringing(req[r])

AddressOK == db.hash # NoPassword /\ ~db.identity => AddressComing

\* A step that leaves the hash alone, of a request that does not drop the address.
LEMMA KeepsAddress ==
  ASSUME TypeOK, AddressOK, NEW r \in Requests, NEW call, Step(r, call), db'.hash = db.hash,
         db.identity => db'.identity, broken \ {"rotation"} \subseteq broken',
         Bringing(req[r]) => Bringing(call) \/ "identity" \in broken' \/ db'.identity
  PROVE  AddressOK'
<1> SUFFICES ASSUME db.hash # NoPassword, ~db'.identity
             PROVE  "identity" \in broken' \/ \E q \in Requests : Bringing(req'[q])
  BY DEF AddressOK, AddressComing, Bringing, Unfinished
<1>1. CASE "identity" \in broken
  BY <1>1
<1>2. CASE \E q \in Requests : Bringing(req[q])
  <2>1. PICK q \in Requests : Bringing(req[q])
    BY <1>2
  <2>2. req'[q] = IF q = r THEN call ELSE req[q]
    BY DEF Step, TypeOK
  <2> QED
    BY <2>1, <2>2
<1> QED
  BY <1>1, <1>2 DEF AddressOK, AddressComing

LEMMA FailKeepsAddress ==
  ASSUME TypeOK, AddressOK, NEW r \in Requests, Fail(r)
  PROVE  AddressOK'
<1>1. Step(r, Idle) /\ db' = db /\ broken \subseteq broken'
  BY DEF Fail, Answer
<1>2. Bringing(req[r]) => "identity" \in broken'
  BY DEF Fail, BrokenBy, Bringing
<1> QED
  BY <1>1, <1>2, KeepsAddress

\* A step that leaves the rows alone, of a request that is not bringing an address.
LEMMA QuietKeepsAddress ==
  ASSUME TypeOK, AddressOK, NEW r \in Requests, NEW call, Step(r, call), db' = db,
         broken \subseteq broken', req[r].at \notin {"readIdentity", "identity"}
  PROVE  AddressOK'
<1>1. ~Bringing(req[r])
  BY DEF Bringing
<1> QED
  BY <1>1, KeepsAddress

LEMMA WriteHashKeepsAddress ==
  ASSUME TypeOK, PlacedOK, AddressOK, NEW r \in Requests, WriteHash(r)
  PROVE  AddressOK'
<1>1. CASE Fail(r)
  BY <1>1, FailKeepsAddress
<1>2. CASE /\ db' = [db EXCEPT !.hash = req[r].new]
           /\ Goto(r, IF req[r].mail THEN "readIdentity" ELSE "readGen")
  <2>1. req[r].op \in {"setup", "create", "force", "change"} /\ req[r] \in Calls
    BY DEF WriteHash, PlacedOK, Placed, TypeOK
  <2>2. db'.identity = db.identity
    BY <1>2 DEF TypeOK, Rows
  <2>3. CASE req[r].mail
    <3> DEFINE call == Moved(req[r], "readIdentity", NoRows)
    <3>1. Step(r, call)
      BY <1>2, <2>3, MovingSteps
    <3>2. call.at = "readIdentity" /\ call.op = req[r].op /\ call.mail = req[r].mail
      BY <2>1, MovedCall
    <3>3. Unfinished(call)
      BY <2>1, <3>2 DEF Unfinished
    <3>4. Bringing(call)
      BY <2>3, <3>2, <3>3 DEF Bringing
    <3>5. req'[r] = call
      BY <3>1 DEF Step, TypeOK
    <3>6. Bringing(req'[r])
      BY <3>4, <3>5
    <3> QED
      BY <3>6 DEF AddressOK, AddressComing, Bringing, Unfinished
  <2>4. CASE ~req[r].mail
    <3>1. db.identity
      BY <2>4 DEF WriteHash, PlacedOK, Addressed
    <3> QED
      BY <2>2, <3>1 DEF AddressOK
  <2> QED
    BY <2>3, <2>4
<1> QED
  BY <1>1, <1>2 DEF WriteHash

LEMMA NextKeepsAddress ==
  ASSUME TypeOK, PlacedOK, AddressOK, [Next]_vars
  PROVE  AddressOK'
<1>1. ASSUME NEW r \in Requests, LoginVerifies(r) PROVE AddressOK'
  BY <1>1, QuietKeepsAddress DEF LoginVerifies
<1>2. ASSUME NEW r \in Requests, LoginOpensSession(r) PROVE AddressOK'
  BY <1>2, QuietKeepsAddress DEF LoginOpensSession, Answer
<1>3. ASSUME NEW r \in Requests, SetupOpensSession(r) PROVE AddressOK'
  <2>1. Step(r, Idle) /\ db' = db /\ req[r].at = "open" /\ broken \subseteq broken'
    BY <1>3 DEF SetupOpensSession, Answer
  <2> QED
    BY <2>1, QuietKeepsAddress
<1>4. ASSUME NEW r \in Requests, Logout(r) PROVE AddressOK'
  BY <1>4, QuietKeepsAddress DEF Logout
<1>5. ASSUME NEW r \in Requests, NEW op \in {"setup", "create", "force"}, NEW pw \in Passwords,
             NEW mail \in BOOLEAN, Begin(r, op, pw, mail)
      PROVE  AddressOK'
  BY <1>5, QuietKeepsAddress DEF Begin
<1>6. ASSUME NEW r \in Requests, BeginEmailOnly(r) PROVE AddressOK'
  BY <1>6, QuietKeepsAddress DEF BeginEmailOnly
<1>7. ASSUME NEW r \in Requests, NEW pw \in Passwords, AdmitChange(r, pw) PROVE AddressOK'
  BY <1>7, QuietKeepsAddress DEF AdmitChange
<1>8. ASSUME NEW r \in Requests, VerifyCurrent(r) PROVE AddressOK'
  BY <1>8, QuietKeepsAddress, MovingSteps DEF VerifyCurrent
<1>9. ASSUME NEW r \in Requests, CheckAccount(r) PROVE AddressOK'
  <2>1. req[r].at = "check" /\ db' = db /\ broken' = broken /\ (Answer(r) \/ ReadRows(r, "hash"))
    BY <1>9 DEF CheckAccount
  <2> QED
    BY <2>1, QuietKeepsAddress, MovingSteps DEF Answer
<1>10. ASSUME NEW r \in Requests, WriteHash(r) PROVE AddressOK'
  BY <1>10, WriteHashKeepsAddress
<1>11. ASSUME NEW r \in Requests, ReadIdentity(r) PROVE AddressOK'
  <2> DEFINE call == Moved(req[r], "identity", db)
  <2>1. Step(r, call) /\ db' = db /\ broken' = broken
    BY <1>11, MovingSteps DEF ReadIdentity
  <2>2. call.at = "identity" /\ call.op = req[r].op /\ call.mail = req[r].mail
    BY MovedCall DEF TypeOK
  <2>3. Unfinished(req[r]) => Unfinished(call)
    BY <2>2 DEF Unfinished
  <2>4. Bringing(req[r]) => Bringing(call)
    BY <2>2, <2>3 DEF Bringing
  <2> QED
    BY <2>1, <2>4, KeepsAddress
<1>12. ASSUME NEW r \in Requests, WriteIdentity(r) PROVE AddressOK'
  <2>1. CASE Fail(r)
    BY <2>1, FailKeepsAddress
  <2>2. CASE db' = [db EXCEPT !.identity = TRUE]
    BY <2>2 DEF TypeOK, Rows, AddressOK
  <2> QED
    BY <1>12, <2>1, <2>2 DEF WriteIdentity
<1>13. ASSUME NEW r \in Requests, ReadGeneration(r) PROVE AddressOK'
  BY <1>13, QuietKeepsAddress, MovingSteps DEF ReadGeneration
<1>14. ASSUME NEW r \in Requests, WriteGeneration(r) PROVE AddressOK'
  <2>1. CASE Fail(r)
    BY <2>1, FailKeepsAddress
  <2>2. CASE /\ db' = [db EXCEPT !.gen = req[r].rows.gen + 1]
             /\ broken \ {"rotation"} \subseteq broken'
             /\ Goto(r, "open") \/ Answer(r)
    <3>1. db'.hash = db.hash /\ db'.identity = db.identity
      BY <2>2 DEF TypeOK, Rows
    <3>2. ~Bringing(req[r])
      BY <1>14 DEF WriteGeneration, Bringing
    <3> QED
      BY <2>2, <3>1, <3>2, KeepsAddress, MovingSteps DEF Answer
  <2> QED
    BY <1>14, <2>1, <2>2 DEF WriteGeneration
<1>15. ASSUME NEW r \in Requests, Abort(r) PROVE AddressOK'
  BY <1>15, FailKeepsAddress DEF Abort
<1>16. CASE UNCHANGED vars
  BY <1>16 DEF vars, AddressOK, AddressComing, Bringing, Unfinished
<1> QED
  BY <1>1, <1>2, <1>3, <1>4, <1>5, <1>6, <1>7, <1>8, <1>9, <1>10, <1>11, <1>12, <1>13,
     <1>14, <1>15, <1>16 DEF Next

LEMMA AddressFollows ==
  ASSUME AddressOK
  PROVE  AccountHasAddress
BY DEF AddressOK, AddressComing, Bringing, AccountHasAddress

\* No order of the four COMMITs of several set-ups, command lines and rotations leaves an
\* account without an address: an account whose hash is written without one already has
\* an address (Addressed), and the request that brings one is still there or was broken.
THEOREM AddressIsKept == Spec => []AccountHasAddress
<1> DEFINE Inv == TypeOK /\ PlacedOK /\ AddressOK
<1>1. Init => Inv
  BY InitTypes, InitPlaced DEF Init, NoRows, AddressOK
<1>2. Inv /\ [Next]_vars => Inv'
  BY NextTypes, NextPlaced, NextKeepsAddress
<1>3. Inv => AccountHasAddress
  BY AddressFollows
<1> QED
  BY <1>1, <1>2, <1>3, PTL DEF Spec

--------------------------------------------------------------------------------
(* Sessions follow the password *)

\* A revocation that is still to come, and will not be overtaken: the request has not
\* read the generation yet, or what it read is still the generation in force.
Revoking(c) == Unfinished(c) /\ (c.at = "gen" => c.rows.gen = db.gen)

Covered == "rotation" \in broken \/ \E r \in Requests : Revoking(req[r])

\* A session, issued or about to be, opened with password pw under generation g.
Current(g, pw) ==
  /\ g <= db.gen
  /\ g = db.gen /\ pw # db.hash => Covered

Intact == broken \cap {"generation", "setup"} = {}

OpensLogin(c) == c.at = "open" /\ c.op = "login"

SessionsOK ==
  Intact => /\ \A c \in cookies : Current(c.gen, c.pw)
            /\ \A r \in Requests : OpensLogin(req[r]) => Current(req[r].rows.gen, req[r].rows.hash)
            /\ \A r \in Requests : req[r].at = "gen" => req[r].rows.gen <= db.gen

\* A step that leaves hash and generation alone: its request keeps its revocation, and a
\* session it adds is of the password and the generation in force, or one that was known.
LEMMA KeepsSessions ==
  ASSUME TypeOK, SessionsOK, NEW r \in Requests, NEW call, Step(r, call),
         db'.gen = db.gen, db'.hash = db.hash, broken \subseteq broken',
         Revoking(req[r]) => Revoking(call) \/ "rotation" \in broken',
         call.at = "gen" => call.rows.gen <= db.gen,
         Intact' /\ Intact => \A c \in cookies' \ cookies : Current(c.gen, c.pw),
         OpensLogin(call) => Current(call.rows.gen, call.rows.hash)
  PROVE  SessionsOK'
<1>1. \A q \in Requests : req'[q] = IF q = r THEN call ELSE req[q]
  BY DEF Step, TypeOK
<1>2. Covered => Covered'
  <2>1. SUFFICES ASSUME NEW q \in Requests, Revoking(req[q])
                 PROVE  "rotation" \in broken' \/ \E p \in Requests : Revoking(req'[p])
    BY DEF Covered, Revoking, Unfinished
  <2> QED
    BY <1>1, <2>1
<1>3. ASSUME NEW g, NEW pw, Current(g, pw)
      PROVE  g <= db'.gen /\ (g = db'.gen /\ pw # db'.hash => Covered')
  BY <1>2, <1>3 DEF Current
<1>4. SUFFICES ASSUME Intact'
               PROVE  /\ \A c \in cookies' : Current(c.gen, c.pw)'
                      /\ \A q \in Requests :
                           OpensLogin(req'[q]) => Current(req[q].rows.gen, req[q].rows.hash)'
                      /\ \A q \in Requests : req'[q].at = "gen" => req'[q].rows.gen <= db'.gen
  BY DEF SessionsOK, OpensLogin
<1>5. Intact
  BY <1>4 DEF Intact
<1>6. ASSUME NEW c \in cookies' PROVE Current(c.gen, c.pw)'
  <2>1. Current(c.gen, c.pw)
    BY <1>4, <1>5 DEF SessionsOK
  <2> QED
    BY <1>2, <2>1 DEF Current
<1>7. ASSUME NEW q \in Requests, OpensLogin(req'[q])
      PROVE  Current(req[q].rows.gen, req[q].rows.hash)'
  <2>1. CASE q = r
    BY <1>1, <1>2, <1>7, <2>1 DEF Current
  <2>2. CASE q # r
    BY <1>1, <1>2, <1>5, <1>7, <2>2 DEF Current, SessionsOK
  <2> QED
    BY <2>1, <2>2
<1>8. ASSUME NEW q \in Requests, req'[q].at = "gen" PROVE req'[q].rows.gen <= db'.gen
  <2>1. CASE q = r
    BY <1>1, <1>8, <2>1
  <2>2. CASE q # r
    BY <1>1, <1>5, <1>8, <2>2 DEF SessionsOK
  <2> QED
    BY <2>1, <2>2
<1> QED
  BY <1>6, <1>7, <1>8

LEMMA FailKeepsSessions ==
  ASSUME TypeOK, SessionsOK, NEW r \in Requests, Fail(r)
  PROVE  SessionsOK'
<1>1. Step(r, Idle) /\ db' = db /\ cookies' = cookies /\ broken \subseteq broken'
  BY DEF Fail, Answer
<1>2. Revoking(req[r]) => "rotation" \in broken'
  BY DEF Fail, BrokenBy, Revoking
<1>3. Idle.at = "idle" /\ ~OpensLogin(Idle)
  BY DEF Idle, OpensLogin
<1> QED
  BY <1>1, <1>2, <1>3, KeepsSessions

\* A step that leaves the rows and the cookies alone, of a request that has nothing to
\* revoke and opens no session.
LEMMA QuietKeepsSessions ==
  ASSUME TypeOK, SessionsOK, NEW r \in Requests, NEW call, Step(r, call), db' = db,
         cookies' = cookies, broken' = broken, ~Unfinished(req[r]),
         call.at \notin {"gen", "open"}
  PROVE  SessionsOK'
<1>1. ~Revoking(req[r]) /\ ~OpensLogin(call)
  BY DEF Revoking, OpensLogin
<1> QED
  BY <1>1, KeepsSessions

LEMMA WriteHashKeepsSessions ==
  ASSUME TypeOK, PlacedOK, SessionsOK, NEW r \in Requests, WriteHash(r)
  PROVE  SessionsOK'
<1>1. CASE Fail(r)
  BY <1>1, FailKeepsSessions
<1>2. CASE /\ db' = [db EXCEPT !.hash = req[r].new]
           /\ Goto(r, IF req[r].mail THEN "readIdentity" ELSE "readGen")
           /\ UNCHANGED <<cookies, broken>>
  <2>1. PICK point \in {"readIdentity", "readGen"} : Goto(r, point)
    BY <1>2
  <2> DEFINE call == Moved(req[r], point, NoRows)
  <2>2. req[r].op \in {"setup", "create", "force", "change"} /\ req[r] \in Calls
    BY DEF WriteHash, PlacedOK, Placed, TypeOK
  <2>3. call.at = point /\ call.op = req[r].op /\ Step(r, call)
    BY <2>1, <2>2, MovingSteps, MovedCall
  <2>4. \A q \in Requests : req'[q] = IF q = r THEN call ELSE req[q]
    BY <2>3 DEF Step, TypeOK
  <2>5. Unfinished(req'[r]) /\ req'[r].at # "gen" /\ req'[r].at # "open"
    BY <2>2, <2>3, <2>4 DEF Unfinished
  <2>6. Covered'
    BY <2>5 DEF Covered, Revoking, Unfinished
  <2>7. db'.gen = db.gen
    BY <1>2 DEF TypeOK, Rows
  <2>8. SUFFICES ASSUME Intact'
                 PROVE  /\ \A c \in cookies : c.gen <= db.gen
                        /\ \A q \in Requests :
                             OpensLogin(req'[q]) => req'[q].rows.gen <= db.gen
                        /\ \A q \in Requests : req'[q].at = "gen" => req'[q].rows.gen <= db.gen
    BY <1>2, <2>6, <2>7 DEF SessionsOK, Current, OpensLogin
  <2>9. Intact
    BY <1>2, <2>8 DEF Intact
  <2> QED
    BY <2>4, <2>5, <2>9 DEF SessionsOK, Current, OpensLogin
<1> QED
  BY <1>1, <1>2 DEF WriteHash

LEMMA WriteGenerationKeepsSessions ==
  ASSUME TypeOK, SessionsOK, NEW r \in Requests, WriteGeneration(r)
  PROVE  SessionsOK'
<1> DEFINE next == req[r].rows.gen + 1
<1>1. CASE Fail(r)
  BY <1>1, FailKeepsSessions
<1>2. CASE /\ db' = [db EXCEPT !.gen = next]
           /\ broken' = IF next > db.gen THEN broken \ {"rotation"}
                        ELSE IF next < db.gen THEN broken \cup {"generation"} ELSE broken
           /\ IF req[r].op = "setup" THEN Goto(r, "open") ELSE Answer(r)
           /\ UNCHANGED cookies
  <2>1. db'.gen = next /\ db'.hash = db.hash
    BY <1>2 DEF TypeOK, Rows
  <2>2. db.gen \in Nat /\ req[r].rows.gen \in Nat /\ req[r] \in Calls /\ req[r].at = "gen"
    BY MaxGenAssumption DEF TypeOK, Calls, Rows, WriteGeneration
  <2>3. PICK call : Step(r, call) /\ call.at \in {"idle", "open"} /\ ~OpensLogin(call)
    <3>1. CASE req[r].op = "setup"
      BY <1>2, <2>2, <3>1, MovingSteps, MovedCall DEF OpensLogin
    <3>2. CASE req[r].op # "setup"
      BY <1>2, <3>2, IdleIsTyped DEF Answer, OpensLogin
    <3> QED
      BY <3>1, <3>2
  <2>4. CASE next < db.gen
    BY <1>2, <2>2, <2>4 DEF SessionsOK, Intact
  <2>5. CASE next = db.gen
    <3>1. ~Revoking(req[r])
      BY <2>2, <2>5 DEF Revoking
    <3>2. broken' = broken
      BY <1>2, <2>2, <2>5
    <3> QED
      BY <1>2, <2>1, <2>3, <2>5, <3>1, <3>2, KeepsSessions
  <2>6. CASE next > db.gen
    <3>1. \A q \in Requests : req'[q] = IF q = r THEN call ELSE req[q]
      BY <2>3 DEF Step, TypeOK
    <3>2. SUFFICES ASSUME Intact'
                   PROVE  /\ \A c \in cookies : c.gen < next
                          /\ \A q \in Requests :
                               OpensLogin(req'[q]) => req'[q].rows.gen < next
                          /\ \A q \in Requests : req'[q].at = "gen" => req'[q].rows.gen < next
      <4>1. ASSUME NEW g \in Nat, g < next PROVE g <= next /\ g # next
        BY <2>2, <4>1
      <4>2. (\A c \in cookies : c.gen \in Nat) /\ \A q \in Requests : req'[q].rows.gen \in Nat
        <5>1. req' \in [Requests -> Calls]
          BY WriteGenerationTypes DEF TypeOK
        <5> QED
          BY <5>1, MaxGenAssumption DEF TypeOK, Cookies, Calls, Rows
      <4> QED
        BY <1>2, <2>1, <3>2, <4>1, <4>2 DEF SessionsOK, Current, OpensLogin
    <3>3. Intact
      BY <1>2, <2>6, <3>2 DEF Intact
    <3>4. ASSUME NEW g \in Nat, g <= db.gen PROVE g < next
      BY <2>2, <2>6, <3>4
    <3>5. \A c \in cookies : c.gen < next
      BY <3>3, <3>4, MaxGenAssumption DEF SessionsOK, Current, TypeOK, Cookies
    <3>6. ASSUME NEW q \in Requests, OpensLogin(req'[q]) PROVE req'[q].rows.gen < next
      <4>1. q # r /\ req'[q] = req[q] /\ req[q].rows.gen \in Nat
        BY <2>3, <3>1, <3>6, MaxGenAssumption DEF TypeOK, Calls, Rows
      <4> QED
        BY <3>3, <3>4, <3>6, <4>1 DEF SessionsOK, Current
    <3>7. ASSUME NEW q \in Requests, req'[q].at = "gen" PROVE req'[q].rows.gen < next
      <4>1. q # r /\ req'[q] = req[q] /\ req[q].rows.gen \in Nat
        BY <2>3, <3>1, <3>7, MaxGenAssumption DEF TypeOK, Calls, Rows
      <4> QED
        BY <3>3, <3>4, <3>7, <4>1 DEF SessionsOK
    <3> QED
      BY <3>5, <3>6, <3>7
  <2> QED
    BY <2>2, <2>4, <2>5, <2>6
<1> QED
  BY <1>1, <1>2 DEF WriteGeneration

LEMMA NextKeepsSessions ==
  ASSUME TypeOK, PlacedOK, SessionsOK, [Next]_vars
  PROVE  SessionsOK'
<1>0. MaxGen \in Nat /\ db.gen \in Nat
  BY MaxGenAssumption DEF TypeOK, Rows
<1>1. ASSUME NEW r \in Requests, LoginVerifies(r) PROVE SessionsOK'
  <2> DEFINE call == [Idle EXCEPT !.at = "open", !.rows = db]
  <2>1. call.at = "open" /\ call.rows = db
    BY DEF Idle
  <2>2. Current(db.gen, db.hash)
    BY <1>0 DEF Current
  <2>3. ~Revoking(req[r])
    BY <1>1 DEF LoginVerifies, Revoking, Unfinished
  <2>4. Step(r, call) /\ db' = db /\ cookies' = cookies /\ broken' = broken
    BY <1>1 DEF LoginVerifies
  <2> HIDE DEF call
  <2> QED
    BY <2>1, <2>2, <2>3, <2>4, KeepsSessions
<1>2. ASSUME NEW r \in Requests, LoginOpensSession(r) PROVE SessionsOK'
  <2>1. ~Revoking(req[r]) /\ OpensLogin(req[r]) /\ ~OpensLogin(Idle) /\ Idle.at = "idle"
    BY <1>2 DEF LoginOpensSession, Revoking, Unfinished, OpensLogin, Idle
  <2>2. Intact => \A c \in cookies' \ cookies : Current(c.gen, c.pw)
    BY <1>2, <2>1 DEF LoginOpensSession, SessionsOK
  <2>3. Step(r, Idle) /\ db' = db /\ broken' = broken
    BY <1>2 DEF LoginOpensSession, Answer
  <2> QED
    BY <2>1, <2>2, <2>3, KeepsSessions
<1>3. ASSUME NEW r \in Requests, SetupOpensSession(r) PROVE SessionsOK'
  <2>1. ~Revoking(req[r]) /\ ~OpensLogin(Idle) /\ Idle.at = "idle"
    BY <1>3 DEF SetupOpensSession, Revoking, Unfinished, OpensLogin, Idle
  <2>2. Intact' => db.hash = req[r].new
    BY <1>3 DEF SetupOpensSession, Intact
  <2>3. Intact' => \A c \in cookies' \ cookies : Current(c.gen, c.pw)
    BY <1>0, <1>3, <2>2 DEF SetupOpensSession, Current
  <2>4. Step(r, Idle) /\ db' = db /\ broken \subseteq broken'
    BY <1>3 DEF SetupOpensSession, Answer
  <2> QED
    BY <2>1, <2>3, <2>4, KeepsSessions
<1>4. ASSUME NEW r \in Requests, Logout(r) PROVE SessionsOK'
  BY <1>4, QuietKeepsSessions DEF Logout, Idle, Unfinished
<1>5. ASSUME NEW r \in Requests, NEW op \in {"setup", "create", "force"}, NEW pw \in Passwords,
             NEW mail \in BOOLEAN, Begin(r, op, pw, mail)
      PROVE  SessionsOK'
  BY <1>5, QuietKeepsSessions DEF Begin, Idle, Unfinished
<1>6. ASSUME NEW r \in Requests, BeginEmailOnly(r) PROVE SessionsOK'
  BY <1>6, QuietKeepsSessions DEF BeginEmailOnly, Idle, Unfinished
<1>7. ASSUME NEW r \in Requests, NEW pw \in Passwords, AdmitChange(r, pw) PROVE SessionsOK'
  BY <1>7, QuietKeepsSessions DEF AdmitChange, Idle, Unfinished
<1>8. ASSUME NEW r \in Requests, VerifyCurrent(r) PROVE SessionsOK'
  <2> DEFINE call == Moved(req[r], "hash", db)
  <2>1. Step(r, call) /\ call.at = "hash"
    BY <1>8, MovingSteps, MovedCall DEF VerifyCurrent, TypeOK
  <2>2. ~Unfinished(req[r]) /\ db' = db /\ cookies' = cookies /\ broken' = broken
    BY <1>8 DEF VerifyCurrent, Unfinished
  <2> QED
    BY <2>1, <2>2, QuietKeepsSessions
<1>9. ASSUME NEW r \in Requests, CheckAccount(r) PROVE SessionsOK'
  <2>1. ~Unfinished(req[r]) /\ db' = db /\ cookies' = cookies /\ broken' = broken
    BY <1>9 DEF CheckAccount, Unfinished
  <2>2. CASE Answer(r)
    BY <2>1, <2>2, IdleIsTyped, QuietKeepsSessions DEF Answer
  <2>3. CASE ReadRows(r, "hash")
    <3>1. Step(r, Moved(req[r], "hash", db)) /\ Moved(req[r], "hash", db).at = "hash"
      BY <2>3, MovingSteps, MovedCall DEF TypeOK
    <3> QED
      BY <2>1, <3>1, QuietKeepsSessions
  <2> QED
    BY <1>9, <2>2, <2>3 DEF CheckAccount
<1>10. ASSUME NEW r \in Requests, WriteHash(r) PROVE SessionsOK'
  BY <1>10, WriteHashKeepsSessions
<1>11. ASSUME NEW r \in Requests, ReadIdentity(r) PROVE SessionsOK'
  <2> DEFINE call == Moved(req[r], "identity", db)
  <2>1. Step(r, call) /\ call.at = "identity" /\ call.op = req[r].op
    BY <1>11, MovingSteps, MovedCall DEF ReadIdentity, TypeOK
  <2>2. db' = db /\ cookies' = cookies /\ broken' = broken
    BY <1>11 DEF ReadIdentity
  <2>3. Revoking(req[r]) => Revoking(call)
    BY <2>1 DEF Revoking, Unfinished
  <2>4. ~OpensLogin(call)
    BY <2>1 DEF OpensLogin
  <2> QED
    BY <2>1, <2>2, <2>3, <2>4, KeepsSessions
<1>12. ASSUME NEW r \in Requests, WriteIdentity(r) PROVE SessionsOK'
  <2>1. CASE Fail(r)
    BY <2>1, FailKeepsSessions
  <2>2. CASE /\ db' = [db EXCEPT !.identity = TRUE]
             /\ IF req[r].op = "email" THEN Answer(r) ELSE Goto(r, "readGen")
             /\ UNCHANGED <<cookies, broken>>
    <3>1. db'.gen = db.gen /\ db'.hash = db.hash
      BY <2>2 DEF TypeOK, Rows
    <3>2. CASE req[r].op = "email"
      <4>1. Step(r, Idle) /\ ~Revoking(req[r]) /\ Idle.at = "idle" /\ ~OpensLogin(Idle)
        BY <2>2, <3>2 DEF Answer, Revoking, Unfinished, Idle, OpensLogin
      <4> QED
        BY <2>2, <3>1, <4>1, KeepsSessions
    <3>3. CASE req[r].op # "email"
      <4> DEFINE call == Moved(req[r], "readGen", NoRows)
      <4>1. Step(r, call) /\ call.at = "readGen" /\ call.op = req[r].op
        BY <2>2, <3>3, MovingSteps, MovedCall DEF TypeOK
      <4>2. (Revoking(req[r]) => Revoking(call)) /\ ~OpensLogin(call)
        BY <4>1 DEF Revoking, Unfinished, OpensLogin
      <4> QED
        BY <2>2, <3>1, <4>1, <4>2, KeepsSessions
    <3> QED
      BY <3>2, <3>3
  <2> QED
    BY <1>12, <2>1, <2>2 DEF WriteIdentity
<1>13. ASSUME NEW r \in Requests, ReadGeneration(r) PROVE SessionsOK'
  <2> DEFINE call == Moved(req[r], "gen", db)
  <2>1. Step(r, call) /\ call.at = "gen" /\ call.op = req[r].op /\ call.rows = db
    BY <1>13, MovingSteps, MovedCall DEF ReadGeneration, TypeOK
  <2>2. db' = db /\ cookies' = cookies /\ broken' = broken
    BY <1>13 DEF ReadGeneration
  <2>3. (Revoking(req[r]) => Revoking(call)) /\ ~OpensLogin(call)
    BY <2>1 DEF Revoking, Unfinished, OpensLogin
  <2>4. call.rows.gen <= db.gen
    BY <1>0, <2>1
  <2> QED
    BY <2>1, <2>2, <2>3, <2>4, KeepsSessions
<1>14. ASSUME NEW r \in Requests, WriteGeneration(r) PROVE SessionsOK'
  BY <1>14, WriteGenerationKeepsSessions
<1>15. ASSUME NEW r \in Requests, Abort(r) PROVE SessionsOK'
  BY <1>15, FailKeepsSessions DEF Abort
<1>16. CASE UNCHANGED vars
  BY <1>16 DEF vars, SessionsOK, Intact, Current, Covered, Revoking, Unfinished, OpensLogin
<1> QED
  BY <1>1, <1>2, <1>3, <1>4, <1>5, <1>6, <1>7, <1>8, <1>9, <1>10, <1>11, <1>12, <1>13,
     <1>14, <1>15, <1>16 DEF Next

LEMMA SessionsFollow ==
  ASSUME SessionsOK
  PROVE  SessionsFollowThePassword
<1> SUFFICES ASSUME NEW c \in cookies, c.gen = db.gen, c.pw # db.hash, Intact
             PROVE  \/ \E r \in Requests : Unfinished(req[r])
                    \/ "rotation" \in broken
  BY DEF SessionsFollowThePassword, Accepted, Intact
<1>1. Current(c.gen, c.pw)
  BY DEF SessionsOK
<1> QED
  BY <1>1 DEF Current, Covered, Revoking

\* A session of a replaced password is refused unless a revocation is under way or was
\* broken, whatever number of logins, rotations and set-ups overlap.  The induction needs
\* more than the cookies: a login between its check and its session, and a revocation
\* that has read the generation, which counts only while nobody overtook it (Revoking).
THEOREM SessionsAreRevoked == Spec => []SessionsFollowThePassword
<1> DEFINE Inv == TypeOK /\ PlacedOK /\ SessionsOK
<1>1. Init => Inv
  <2>1. ASSUME Init PROVE SessionsOK
    BY <2>1, IdleIsTyped DEF Init, SessionsOK, OpensLogin
  <2> QED
    BY <2>1, InitTypes, InitPlaced
<1>2. Inv /\ [Next]_vars => Inv'
  BY NextTypes, NextPlaced, NextKeepsSessions
<1>3. Inv => SessionsFollowThePassword
  BY SessionsFollow
<1> QED
  BY <1>1, <1>2, <1>3, PTL DEF Spec

--------------------------------------------------------------------------------
(* The limiter of failed logins *)

\* A set of natural numbers has a least one.
LEMMA Least ==
  ASSUME NEW T \in SUBSET Nat, T # {}
  PROVE  \E n \in T : \A m \in T : n <= m
<1>1. \E n \in T : \A m \in T : ~(<<m, n>> \in OpToRel(<, Nat))
  BY NatLessThanWellFounded, WFMin
<1>2. PICK n \in T : \A m \in T : ~(<<m, n>> \in OpToRel(<, Nat))
  BY <1>1
<1>3. ASSUME NEW m \in T PROVE n <= m
  <2>1. n \in Nat /\ m \in Nat
    OBVIOUS
  <2>2. ~(<<m, n>> \in {ss \in Nat \X Nat : ss[1] < ss[2]})
    BY <1>2 DEF OpToRel
  <2> QED
    BY <2>1, <2>2
<1> QED
  BY <1>3

LEMMA TimesAreNat ==
  Times \subseteq Nat /\ Window \in Nat /\ Block \in Nat /\ Horizon \in Nat
BY TimesAssumption DEF Times

\* Pruning finds the first failure that is still in the window.
LEMMA PruneCuts ==
  ASSUME NEW f \in Seq(Times), NEW t \in Nat
  PROVE  \/ /\ Prune(f, t) = <<>>
            /\ \A i \in 1..Len(f) : f[i] + Window < t
         \/ \E i \in 1..Len(f) :
              /\ f[i] + Window >= t
              /\ \A j \in 1..(i - 1) : f[j] + Window < t
              /\ Prune(f, t) = SubSeq(f, i, Len(f))
<1> DEFINE recent == {i \in 1..Len(f) : f[i] + Window >= t}
<1>0. Window \in Nat /\ Len(f) \in Nat /\ \A i \in 1..Len(f) : f[i] \in Nat
  <2>1. Len(f) \in Nat /\ \A i \in 1..Len(f) : f[i] \in Times
    OBVIOUS
  <2>2. Window \in Nat /\ \A n \in Times : n \in Nat
    BY TimesAreNat
  <2> QED
    BY <2>1, <2>2
<1>1. CASE recent = {}
  <2>1. Prune(f, t) = <<>>
    BY <1>1 DEF Prune
  <2>2. \A i \in 1..Len(f) : f[i] + Window < t
    BY <1>0, <1>1
  <2> QED
    BY <2>1, <2>2
<1>2. CASE recent # {}
  <2> DEFINE first == CHOOSE i \in recent : \A j \in recent : i <= j
  <2>1. recent \subseteq Nat
    BY <1>0
  <2>2. \E i \in recent : \A j \in recent : i <= j
    BY <1>2, <2>1, Least
  <2>3. first \in recent /\ \A j \in recent : first <= j
    BY <2>2
  <2>4. Prune(f, t) = SubSeq(f, first, Len(f))
    BY <1>2 DEF Prune
  <2> HIDE DEF first
  <2>5. ASSUME NEW j \in 1..(first - 1) PROVE f[j] + Window < t
    <3>1. j \in 1..Len(f) /\ j < first
      BY <1>0, <2>3
    <3>2. j \notin recent
      BY <1>0, <2>1, <2>3, <3>1
    <3> QED
      BY <1>0, <3>1, <3>2
  <2> QED
    BY <2>3, <2>4, <2>5
<1> QED
  BY <1>1, <1>2

LEMMA PruneTypes ==
  ASSUME NEW f \in Seq(Times), NEW t \in Nat
  PROVE  Prune(f, t) \in Seq(Times)
<1>1. CASE Prune(f, t) = <<>>
  BY <1>1
<1>2. ASSUME NEW i \in 1..Len(f), Prune(f, t) = SubSeq(f, i, Len(f))
      PROVE  Prune(f, t) \in Seq(Times)
  BY <1>2, SubSeqProperties
<1> QED
  BY <1>1, <1>2, PruneCuts

LEMMA PruneNothing ==
  ASSUME NEW t \in Nat
  PROVE  Prune(<<>>, t) = <<>>
BY DEF Prune

\* What is pruned early leaves the same as what is pruned late.
LEMMA PruneTwice ==
  ASSUME NEW f \in Seq(Times), NEW s \in Nat, NEW t \in Nat, s <= t
  PROVE  Prune(Prune(f, s), t) = Prune(f, t)
<1>0. Window \in Nat /\ Len(f) \in Nat /\ \A i \in 1..Len(f) : f[i] \in Nat
  <2>1. Len(f) \in Nat /\ \A i \in 1..Len(f) : f[i] \in Times
    OBVIOUS
  <2>2. Window \in Nat /\ \A n \in Times : n \in Nat
    BY TimesAreNat
  <2> QED
    BY <2>1, <2>2
<1>1. CASE /\ Prune(f, s) = <<>>
           /\ \A i \in 1..Len(f) : f[i] + Window < s
  <2>1. \A i \in 1..Len(f) : ~(f[i] + Window >= t)
    BY <1>0, <1>1
  <2>2. Prune(f, t) = <<>>
    BY <2>1, PruneCuts
  <2> QED
    BY <1>1, <2>2, PruneNothing
<1>2. ASSUME NEW i \in 1..Len(f),
             f[i] + Window >= s,
             \A j \in 1..(i - 1) : f[j] + Window < s,
             Prune(f, s) = SubSeq(f, i, Len(f))
      PROVE  Prune(Prune(f, s), t) = Prune(f, t)
  <2> DEFINE g == SubSeq(f, i, Len(f))
  <2>1. /\ g \in Seq(Times) /\ Len(g) = Len(f) - i + 1
        /\ \A k \in 1..Len(g) : g[k] = f[i + k - 1]
    <3>1. \A k \in i..Len(f) : f[k] \in Times
      OBVIOUS
    <3>2. /\ SubSeq(f, i, Len(f)) \in Seq(Times)
          /\ Len(SubSeq(f, i, Len(f))) = IF i <= Len(f) THEN Len(f) - i + 1 ELSE 0
          /\ \A k \in 1..(Len(f) - i + 1) : SubSeq(f, i, Len(f))[k] = f[i + k - 1]
      BY <1>0, <3>1, SubSeqProperties
    <3> QED
      BY <1>0, <3>2
  <2> HIDE DEF g
  <2>2. CASE /\ Prune(f, t) = <<>>
             /\ \A k \in 1..Len(f) : f[k] + Window < t
    <3>1. \A k \in 1..Len(g) : ~(g[k] + Window >= t)
      <4>1. ASSUME NEW k \in 1..Len(g) PROVE ~(g[k] + Window >= t)
        <5>1. i + k - 1 \in 1..Len(f) /\ g[k] = f[i + k - 1]
          BY <1>0, <2>1
        <5> QED
          BY <1>0, <2>2, <5>1
      <4> QED
        BY <4>1
    <3>2. Prune(g, t) = <<>>
      BY <2>1, <3>1, PruneCuts
    <3> QED
      BY <1>2, <2>2, <3>2 DEF g
  <2>3. ASSUME NEW l \in 1..Len(f),
               f[l] + Window >= t,
               \A j \in 1..(l - 1) : f[j] + Window < t,
               Prune(f, t) = SubSeq(f, l, Len(f))
        PROVE  Prune(g, t) = Prune(f, t)
    <3>1. l >= i
      <4>1. CASE l < i
        <5>1. l \in 1..(i - 1)
          BY <1>0, <4>1
        <5> QED
          BY <1>0, <1>2, <2>3, <5>1
      <4> QED
        BY <1>0, <4>1
    <3>2. l - i + 1 \in 1..Len(g) /\ g[l - i + 1] = f[l]
      BY <1>0, <2>1, <3>1
    <3>3. PICK k \in 1..Len(g) : /\ g[k] + Window >= t
                                 /\ \A j \in 1..(k - 1) : g[j] + Window < t
                                 /\ Prune(g, t) = SubSeq(g, k, Len(g))
      <4>1. ~(g[l - i + 1] + Window < t)
        BY <1>0, <2>3, <3>2
      <4> QED
        BY <2>1, <3>2, <4>1, PruneCuts
    <3>4. k = l - i + 1
      <4>1. CASE k < l - i + 1
        <5>1. i + k - 1 \in 1..(l - 1) /\ g[k] = f[i + k - 1] /\ f[i + k - 1] \in Nat
          BY <1>0, <2>1, <3>1, <4>1
        <5> QED
          BY <1>0, <2>3, <3>3, <5>1
      <4>2. CASE l - i + 1 < k
        <5>1. l - i + 1 \in 1..(k - 1)
          BY <1>0, <2>1, <3>1, <3>2, <4>2
        <5> QED
          BY <1>0, <2>3, <3>2, <3>3, <5>1
      <4> QED
        BY <1>0, <2>1, <4>1, <4>2
    <3>5. SubSeq(SubSeq(f, i, Len(f)), k, Len(g)) = SubSeq(f, i + k - 1, i + Len(g) - 1)
      <4>1. k \in 1..(Len(f) - i + 1) /\ Len(g) \in 1..(Len(f) - i + 1) /\ Len(f) \in 1..Len(f)
        BY <1>0, <2>1, <3>3
      <4> QED
        BY <4>1, SubSeqOfSubSeq
    <3>6. i + k - 1 = l /\ i + Len(g) - 1 = Len(f)
      BY <1>0, <2>1, <3>4
    <3> QED
      BY <2>3, <3>3, <3>5, <3>6 DEF g
  <2>4. Prune(g, t) = Prune(f, t)
    BY <1>2, <2>2, <2>3, PruneCuts DEF g
  <2> QED
    BY <1>2, <2>4 DEF g
<1> QED
  BY <1>1, <1>2, PruneCuts

--------------------------------------------------------------------------------
(* Types of the limiter *)

\* A reading of the clock is not later than the clock, and the table is finite.
LimiterTypes ==
  /\ LimiterTypeOK
  /\ IsFiniteSet(Followed)
  /\ \A r \in Threads : serving[r].at = "recording" => serving[r].read <= now

LEMMA NothingIsTyped ==
  Nothing \in Entries /\ NoCount \in Counts /\ NoAttempt \in Attempts
<1>1. 0 \in Times /\ 0 \in 0..(Horizon + Block)
  BY TimesAreNat DEF Times
<1>2. <<>> \in Seq(Times) /\ <<>> \in Seq(Keys)
  OBVIOUS
<1> QED
  BY <1>1, <1>2 DEF Nothing, NoCount, NoAttempt, Entries, Counts, Attempts

LEMMA CountedFields ==
  ASSUME NEW e, NEW t \in Times,
         e \in Entries \/ e \in Counts
  PROVE  LET failures == Append(Prune(e.failures, t), t)
         IN /\ failures \in Seq(Times)
            /\ Len(failures) >= MaxAttempts => /\ Counted(e, t).failures = <<>>
                                               /\ Counted(e, t).until = t + Block
            /\ ~(Len(failures) >= MaxAttempts) => /\ Counted(e, t).failures = failures
                                                  /\ Counted(e, t).until = e.until
            /\ e \in Entries => Counted(e, t) \in Entries
            /\ e \in Counts => Counted(e, t) \in Counts
<1> DEFINE failures == Append(Prune(e.failures, t), t)
<1>1. e.failures \in Seq(Times) /\ t \in Nat /\ e.until \in 0..(Horizon + Block)
  BY TimesAreNat DEF Entries, Counts
<1>2. failures \in Seq(Times)
  BY <1>1, PruneTypes, AppendProperties
<1>3. t + Block \in 0..(Horizon + Block) /\ <<>> \in Seq(Times)
  BY TimesAreNat DEF Times
<1> HIDE DEF failures
<1>4. Counted(e, t) = IF Len(failures) >= MaxAttempts
                      THEN [e EXCEPT !.failures = <<>>, !.until = t + Block]
                      ELSE [e EXCEPT !.failures = failures]
  BY DEF Counted, failures
<1>5. CASE Len(failures) >= MaxAttempts
  <2>1. Counted(e, t) = [e EXCEPT !.failures = <<>>, !.until = t + Block]
    BY <1>4, <1>5
  <2>2. Counted(e, t).failures = <<>> /\ Counted(e, t).until = t + Block
    BY <2>1 DEF Entries, Counts
  <2>3. /\ e \in Entries => Counted(e, t) \in Entries
        /\ e \in Counts => Counted(e, t) \in Counts
    BY <1>3, <2>1 DEF Entries, Counts
  <2> QED
    BY <1>2, <1>5, <2>2, <2>3 DEF failures
<1>6. CASE ~(Len(failures) >= MaxAttempts)
  <2>1. Counted(e, t) = [e EXCEPT !.failures = failures]
    BY <1>4, <1>6
  <2>2. Counted(e, t).failures = failures /\ Counted(e, t).until = e.until
    BY <2>1 DEF Entries, Counts
  <2>3. /\ e \in Entries => Counted(e, t) \in Entries
        /\ e \in Counts => Counted(e, t) \in Counts
    BY <1>2, <2>1 DEF Entries, Counts
  <2> QED
    BY <1>2, <1>6, <2>2, <2>3 DEF failures
<1> QED
  BY <1>5, <1>6

\* What a sweep at t leaves before evictions.
LEMMA PurgedTable ==
  ASSUME LimiterTypeOK, NEW t \in Nat
  PROVE  /\ DOMAIN Purged(t) \subseteq Followed
         /\ Purged(t) \in [DOMAIN Purged(t) -> Entries]
         /\ \A k \in DOMAIN Purged(t) : /\ Purged(t)[k].failures = Prune(entries[k].failures, t)
                                                /\ Purged(t)[k].until = entries[k].until
         /\ \A k \in Followed \ DOMAIN Purged(t) : /\ Prune(entries[k].failures, t) = <<>>
                                                                   /\ entries[k].until <= t
<1> DEFINE pruned == [k \in Followed |-> [entries[k] EXCEPT !.failures = Prune(@, t)]]
           dead == {k \in Followed : pruned[k].failures = <<>> /\ pruned[k].until <= t}
<1>1. Purged(t) = [k \in Followed \ dead |-> pruned[k]]
  BY DEF Purged, Without
<1>2. ASSUME NEW k \in Followed
      PROVE  /\ pruned[k] \in Entries
             /\ pruned[k].failures = Prune(entries[k].failures, t)
             /\ pruned[k].until = entries[k].until
  <2>1. entries[k] \in Entries
    BY DEF LimiterTypeOK
  <2>2. Prune(entries[k].failures, t) \in Seq(Times)
    BY <2>1, PruneTypes DEF Entries
  <2>3. pruned[k] = [entries[k] EXCEPT !.failures = Prune(entries[k].failures, t)]
    OBVIOUS
  <2> QED
    BY <2>1, <2>2, <2>3 DEF Entries
<1> HIDE DEF pruned
<1>3. ASSUME NEW k \in Followed \ DOMAIN Purged(t)
      PROVE  Prune(entries[k].failures, t) = <<>> /\ entries[k].until <= t
  BY <1>1, <1>2, <1>3
<1>4. DOMAIN Purged(t) = Followed \ dead
  BY <1>1
<1> QED
  BY <1>1, <1>2, <1>3, <1>4

\* Every table a failure is counted in: k itself is treated by Count.
LEMMA CountTypes ==
  ASSUME LimiterTypes, NEW h \in Keys, NEW t \in Times, t <= now,
         NEW kept, NEW evicted \in SUBSET Keys,
         DOMAIN kept \subseteq Followed, kept \in [DOMAIN kept -> Entries],
         Count(h, t, kept, evicted)
  PROVE  /\ DOMAIN entries' \subseteq Keys
         /\ entries' \in [DOMAIN entries' -> Entries]
         /\ IsFiniteSet(DOMAIN entries')
         /\ Cardinality(DOMAIN entries') <= MaxEntries
         /\ lost' \subseteq Keys /\ ideal' \in [Keys -> Counts] /\ clock' \in 0..now
<1> DEFINE K == DOMAIN kept
           new == Counted(IF h \in K THEN kept[h] ELSE Nothing, t)
           out == evicted \cup (IF h \in K \/ Cardinality(K) < MaxEntries THEN {} ELSE {h})
<1>1. IsFiniteSet(K) /\ Cardinality(K) \in Nat /\ Cardinality(K) <= MaxEntries /\ MaxEntries \in Nat
  <2>1. IsFiniteSet(Followed) /\ Cardinality(Followed) <= MaxEntries /\ MaxEntries \in Nat
    BY LimitsAssumption DEF LimiterTypes, LimiterTypeOK
  <2>2. IsFiniteSet(K) /\ Cardinality(K) <= Cardinality(Followed)
    BY <2>1, FS_Subset
  <2> QED
    BY <2>1, <2>2, FS_CardinalityType
<1>2. K \subseteq Keys
  BY DEF LimiterTypes, LimiterTypeOK
<1>3. Forgets(h, t, out)
  BY DEF Count
<1>4. lost' \subseteq Keys /\ ideal' \in [Keys -> Counts] /\ clock' \in 0..now
  <2>1. lost' \subseteq Keys
    BY <1>3 DEF Forgets, LimiterTypes, LimiterTypeOK
  <2>2. clock' \in 0..now
    <3>1. clock \in 0..now /\ t \in Nat /\ now \in Nat
      BY TimesAreNat DEF LimiterTypes, LimiterTypeOK
    <3>2. clock' = IF t < clock THEN clock ELSE t
      BY <1>3 DEF Forgets
    <3> QED
      BY <3>1, <3>2
  <2>3. Counted(ideal[h], t) \in Counts
    BY CountedFields DEF LimiterTypes, LimiterTypeOK
  <2>4. ideal' \in [Keys -> Counts]
    BY <1>3, <2>3, NothingIsTyped DEF Forgets, LimiterTypes, LimiterTypeOK
  <2> QED
    BY <2>1, <2>2, <2>4
<1>5. CASE h \in K \/ Cardinality(K) < MaxEntries
  <2>1. (IF h \in K THEN kept[h] ELSE Nothing) \in Entries
    BY NothingIsTyped
  <2>2. new \in Entries
    BY <2>1, CountedFields
  <2> HIDE DEF new
  <2>3. [new EXCEPT !.seen = t] \in Entries
    BY <2>2 DEF Entries
  <2>4. entries' = [l \in K \cup {h} |-> IF l = h THEN [new EXCEPT !.seen = t] ELSE kept[l]]
    BY <1>5 DEF Count, new
  <2>5. IsFiniteSet(K \cup {h}) /\ Cardinality(K \cup {h}) <= MaxEntries
    <3>1. /\ IsFiniteSet(K \cup {h})
          /\ Cardinality(K \cup {h}) = IF h \in K THEN Cardinality(K) ELSE Cardinality(K) + 1
      BY <1>1, FS_AddElement
    <3> QED
      BY <1>1, <1>5, <3>1
  <2>6. DOMAIN entries' = K \cup {h}
    BY <2>4
  <2>7. entries' \in [K \cup {h} -> Entries]
    BY <2>3, <2>4
  <2> QED
    BY <1>2, <1>4, <2>5, <2>6, <2>7
<1>6. CASE ~(h \in K \/ Cardinality(K) < MaxEntries)
  <2>1. entries' = kept
    BY <1>6 DEF Count
  <2> QED
    BY <1>1, <1>2, <1>4, <2>1
<1> QED
  BY <1>5, <1>6

\* The table in which RecordSweeping counts: what it kept, and what of it the keys know.
LEMMA SweptTable ==
  ASSUME LimiterTypeOK, NEW t \in Nat, NEW evicted \in Evictions(Purged(t), t),
         NEW kept, kept = Without(Purged(t), evicted)
  PROVE  /\ evicted \subseteq DOMAIN Purged(t)
         /\ \A k \in evicted : entries[k].until <= t
         /\ DOMAIN kept = DOMAIN Purged(t) \ evicted
         /\ DOMAIN kept \subseteq Followed
         /\ kept \in [DOMAIN kept -> Entries]
         /\ \A k \in DOMAIN kept : kept[k] = Purged(t)[k]
<1>1. evicted \subseteq DOMAIN Purged(t) /\ \A k \in evicted : Purged(t)[k].until <= t
  <2> DEFINE free == {k \in DOMAIN Purged(t) : Purged(t)[k].until <= t}
  <2>1. evicted \in {{}} \/ evicted \in SUBSET free
    BY DEF Evictions
  <2> QED
    BY <2>1
<1>2. \A k \in evicted : entries[k].until <= t
  BY <1>1, PurgedTable
<1>3. kept = [k \in DOMAIN Purged(t) \ evicted |-> Purged(t)[k]]
  BY DEF Without
<1>4. DOMAIN kept = DOMAIN Purged(t) \ evicted /\ \A k \in DOMAIN kept : kept[k] = Purged(t)[k]
  BY <1>3
<1>5. kept \in [DOMAIN kept -> Entries]
  BY <1>3, <1>4, PurgedTable
<1> QED
  BY <1>1, <1>2, <1>4, <1>5, PurgedTable

LEMMA NextCall ==
  ASSUME LimiterTypes, NEW r \in Threads, serving[r].at # "idle",
         NEW point \in {"failing", "clearing"}, Continue(r, point)
  PROVE  /\ serving' \in [Threads -> Attempts]
         /\ \A q \in Threads : /\ serving'[q].at # "idle" => serving'[q].todo # <<>>
                               /\ serving'[q].at = "recording" => serving'[q] = serving[q]
<1>1. serving \in [Threads -> Attempts] /\ serving[r] \in Attempts /\ serving[r].todo # <<>>
  BY DEF LimiterTypes, LimiterTypeOK
<1>2. serving[r].todo \in Seq(Keys)
  BY <1>1 DEF Attempts
<1>3. CASE Len(serving[r].todo) = 1
  <2>1. serving' = [serving EXCEPT ![r] = NoAttempt]
    BY <1>3 DEF Continue, Serve
  <2>2. NoAttempt.at = "idle"
    BY DEF NoAttempt
  <2> QED
    BY <1>1, <2>1, <2>2, NothingIsTyped DEF LimiterTypes, LimiterTypeOK
<1>4. CASE Len(serving[r].todo) # 1
  <2> DEFINE call == [serving[r] EXCEPT !.at = point, !.todo = Tail(serving[r].todo), !.read = 0]
  <2>1. serving' = [serving EXCEPT ![r] = call]
    BY <1>4 DEF Continue, Serve
  <2>2. Tail(serving[r].todo) \in Seq(Keys) /\ Tail(serving[r].todo) # <<>>
    <3>1. Tail(serving[r].todo) \in Seq(Keys) /\ Len(Tail(serving[r].todo)) = Len(serving[r].todo) - 1
      BY <1>1, <1>2, HeadTailProperties
    <3>2. Len(serving[r].todo) \in Nat /\ Len(serving[r].todo) # 0
      BY <1>1, <1>2
    <3>3. Len(Tail(serving[r].todo)) # 0
      BY <1>4, <3>1, <3>2
    <3>4. Len(<<>>) = 0
      OBVIOUS
    <3>5. CASE Tail(serving[r].todo) = <<>>
      BY <3>3, <3>4, <3>5, Zenon
    <3> QED
      BY <3>1, <3>5, Zenon
  <2>3. 0 \in Times
    BY TimesAreNat DEF Times
  <2>4. call \in Attempts /\ call.at = point /\ call.todo = Tail(serving[r].todo)
    BY <1>1, <2>2, <2>3 DEF Attempts
  <2> HIDE DEF call
  <2> QED
    BY <1>1, <2>1, <2>2, <2>4 DEF LimiterTypes, LimiterTypeOK
<1> QED
  BY <1>3, <1>4

\* The key a request has to treat.
LEMMA KeyToTreat ==
  ASSUME LimiterTypes, NEW r \in Threads, serving[r].at # "idle"
  PROVE  Head(serving[r].todo) \in Keys
<1>1. serving[r].todo \in Seq(Keys) /\ serving[r].todo # <<>>
  BY DEF LimiterTypes, LimiterTypeOK, Attempts
<1> QED
  BY <1>1, HeadTailProperties

\* A failure that is recorded is counted in a table swept or not, out of which nothing went
\* but what the sweep purged and evicted.
LEMMA RecordCounts ==
  ASSUME LimiterTypes, NEW r \in Threads, RecordFailure(r)
  PROVE  LET h == Head(serving[r].todo)
             t == serving[r].read
         IN /\ serving[r].at = "recording" /\ h \in Keys /\ t \in Times /\ t <= now
            /\ \E kept, evicted :
                 /\ Count(h, t, kept, evicted)
                 /\ evicted \in SUBSET Keys
                 /\ DOMAIN kept \subseteq Followed /\ kept \in [DOMAIN kept -> Entries]
                 /\ \A k \in Followed \ DOMAIN kept :
                      k \in evicted \/ Prune(entries[k].failures, t) = <<>>
                 /\ \A k \in Followed \ DOMAIN kept : entries[k].until <= t
                 /\ \A k \in DOMAIN kept :
                      /\ kept[k].failures \in {entries[k].failures, Prune(entries[k].failures, t)}
                      /\ kept[k].until = entries[k].until
            /\ ops' \in 0..(SweepEvery - 1) /\ saturated' \in BOOLEAN
<1> DEFINE h == Head(serving[r].todo)
           t == serving[r].read
<1>1. serving[r].at = "recording" /\ h \in Keys /\ t \in Times /\ t <= now /\ t \in Nat
  <2>1. serving[r].at = "recording" /\ serving[r] \in Attempts
    BY DEF RecordFailure, LimiterTypes, LimiterTypeOK
  <2>2. t \in Times /\ t <= now
    BY <2>1 DEF Attempts, LimiterTypes
  <2> QED
    BY <2>1, <2>2, KeyToTreat, TimesAreNat
<1>2. LimiterTypeOK
  BY DEF LimiterTypes
<1>3. SweepEvery \in Nat /\ SweepEvery > 0 /\ ops \in 0..(SweepEvery - 1)
  BY <1>2, LimitsAssumption DEF LimiterTypeOK
<1>4. RecordSweeping(h, t) \/ RecordPlainly(h, t)
  BY DEF RecordFailure
<1> HIDE DEF h, t
<1>5. CASE RecordSweeping(h, t)
  <2>1. PICK evicted \in Evictions(Purged(t), t) :
          LET kept == Without(Purged(t), evicted) IN
          /\ Count(h, t, kept, evicted)
          /\ ops' = 0
          /\ saturated' = (NeedsRoom(h) /\ DOMAIN kept = Followed)
    BY <1>5 DEF RecordSweeping
  <2> DEFINE kept == Without(Purged(t), evicted)
  <2>2. Count(h, t, kept, evicted)
    BY <2>1
  <2>3. saturated' \in BOOLEAN
    BY <2>1
  <2>4. ops' \in 0..(SweepEvery - 1)
    BY <1>3, <2>1
  <2>5. /\ evicted \subseteq DOMAIN Purged(t)
        /\ \A k \in evicted : entries[k].until <= t
        /\ DOMAIN kept = DOMAIN Purged(t) \ evicted
        /\ DOMAIN kept \subseteq Followed
        /\ kept \in [DOMAIN kept -> Entries]
        /\ \A k \in DOMAIN kept : kept[k] = Purged(t)[k]
    <3>1. kept = Without(Purged(t), evicted)
      OBVIOUS
    <3> HIDE DEF kept
    <3> QED
      BY <1>1, <1>2, <3>1, SweptTable
  <2> HIDE DEF kept
  <2>6. /\ DOMAIN Purged(t) \subseteq Followed
        /\ \A k \in DOMAIN Purged(t) : /\ Purged(t)[k].failures = Prune(entries[k].failures, t)
                                               /\ Purged(t)[k].until = entries[k].until
        /\ \A k \in Followed \ DOMAIN Purged(t) : /\ Prune(entries[k].failures, t) = <<>>
                                                                  /\ entries[k].until <= t
    BY <1>1, <1>2, PurgedTable
  <2>7. evicted \in SUBSET Keys
    BY <1>2, <2>5, <2>6 DEF LimiterTypeOK
  <2>8. \A k \in Followed \ DOMAIN kept : k \in evicted \/ k \in Followed \ DOMAIN Purged(t)
    BY <2>5
  <2>9. \A k \in DOMAIN kept : /\ kept[k].failures \in {entries[k].failures, Prune(entries[k].failures, t)}
                               /\ kept[k].until = entries[k].until
    BY <2>5, <2>6
  <2>10. \A k \in Followed \ DOMAIN kept :
           /\ k \in evicted \/ Prune(entries[k].failures, t) = <<>>
           /\ entries[k].until <= t
    BY <2>5, <2>6, <2>8
  <2> QED
    BY <1>1, <2>2, <2>3, <2>4, <2>5, <2>7, <2>9, <2>10 DEF h, t
<1>6. CASE RecordPlainly(h, t)
  <2>1. Count(h, t, entries, {}) /\ saturated' = saturated
    BY <1>6 DEF RecordPlainly
  <2>2. ops' \in 0..(SweepEvery - 1)
    BY <1>3, <1>6 DEF RecordPlainly, Sweeps
  <2>3. Followed = DOMAIN entries /\ entries \in [DOMAIN entries -> Entries] /\ saturated' \in BOOLEAN
    BY <1>2, <2>1 DEF LimiterTypeOK, Followed
  <2> QED
    BY <1>1, <2>1, <2>2, <2>3 DEF h, t
<1> QED
  BY <1>4, <1>5, <1>6

\* The steps that leave the table alone only move a request.
LEMMA MovesTypes ==
  ASSUME LimiterTypes, NEW r \in Threads, NEW call \in Attempts, Serve(r, call),
         call.at # "idle" => call.todo # <<>>,
         call.at = "recording" => call.read <= now,
         UNCHANGED <<now, table, history>>
  PROVE  LimiterTypes'
<1>1. serving \in [Threads -> Attempts] /\ serving' = [serving EXCEPT ![r] = call]
  BY DEF Serve, LimiterTypes, LimiterTypeOK
<1>2. /\ serving' \in [Threads -> Attempts]
      /\ \A q \in Threads : serving'[q] = IF q = r THEN call ELSE serving[q]
  BY <1>1
<1>3. \A q \in Threads : /\ serving'[q].at # "idle" => serving'[q].todo # <<>>
                         /\ serving'[q].at = "recording" => serving'[q].read <= now
  BY <1>2 DEF LimiterTypes, LimiterTypeOK
<1>4. now' = now /\ table' = table /\ history' = history
  OBVIOUS
<1> QED
  BY <1>2, <1>3, <1>4 DEF LimiterTypes, LimiterTypeOK, table, history, Followed

LEMMA LimiterNextTypes ==
  ASSUME LimiterTypes, [LimiterNext]_limiterVars
  PROVE  LimiterTypes'
<1>0. LimiterTypeOK
  BY DEF LimiterTypes
<1>1. CASE Tick
  <2>1. now \in 0..Horizon /\ Horizon \in Nat /\ now' = now + 1 /\ now < Horizon
    BY <1>0, <1>1, TimesAreNat DEF Tick, LimiterTypeOK, Times
  <2>2. now' \in Times /\ now <= now'
    BY <2>1 DEF Times
  <2>3. table' = table /\ serving' = serving /\ history' = history
    BY <1>1 DEF Tick
  <2>4. clock' \in 0..now'
    BY <1>0, <2>1, <2>3 DEF LimiterTypeOK, history
  <2>5. \A r \in Threads : serving'[r].at = "recording" => serving'[r].read <= now'
    <3>1. ASSUME NEW r \in Threads, serving[r].at = "recording" PROVE serving[r].read <= now'
      <4>1. serving[r].read \in Nat /\ serving[r].read <= now
        BY <1>0, <3>1, TimesAreNat DEF LimiterTypes, LimiterTypeOK, Attempts
      <4> QED
        BY <2>1, <4>1
    <3> QED
      BY <2>3, <3>1
  <2> QED
    BY <2>2, <2>3, <2>4, <2>5 DEF LimiterTypes, LimiterTypeOK, table, history, Followed
<1>2. ASSUME NEW r \in Threads, NEW a \in Addresses, Admit(r, a)
      PROVE  LimiterTypes'
  <2>1. NoAttempt.at = "idle" /\ NoAttempt.todo = <<>> /\ NoAttempt.read = 0 /\ NoAttempt \in Attempts
    BY NothingIsTyped DEF NoAttempt
  <2>2. <<a, "any">> \in Keys /\ <<a, "password">> \in Keys
    BY DEF Keys
  <2>3. ASSUME NEW todo \in Seq(Keys), todo # <<>>,
               Serve(r, [NoAttempt EXCEPT !.at = "verifying", !.todo = todo])
        PROVE  LimiterTypes'
    <3> DEFINE call == [NoAttempt EXCEPT !.at = "verifying", !.todo = todo]
    <3>1. call \in Attempts /\ call.at = "verifying" /\ call.todo = todo
      BY <2>1 DEF Attempts
    <3>2. Serve(r, call)
      BY <2>3
    <3> HIDE DEF call
    <3>3. UNCHANGED <<now, table, history>>
      BY <1>2 DEF Admit
    <3> QED
      BY <2>3, <3>1, <3>2, <3>3, MovesTypes
  <2>4. << <<a, "any">> >> \in Seq(Keys) /\ << <<a, "any">> >> # <<>>
    BY <2>2
  <2>5. << <<a, "any">>, <<a, "password">> >> \in Seq(Keys) /\ << <<a, "any">>, <<a, "password">> >> # <<>>
    BY <2>2
  <2>6. \/ Serve(r, [NoAttempt EXCEPT !.at = "verifying", !.todo = << <<a, "any">> >>])
        \/ Serve(r, [NoAttempt EXCEPT !.at = "verifying", !.todo = << <<a, "any">>, <<a, "password">> >>])
    BY <1>2 DEF Admit
  <2> QED
    BY <2>3, <2>4, <2>5, <2>6
<1>3. ASSUME NEW r \in Threads, ReadClock(r)
      PROVE  LimiterTypes'
  <2> DEFINE call == [serving[r] EXCEPT !.at = "recording", !.read = now]
  <2>1. serving[r] \in Attempts /\ serving[r].todo # <<>> /\ now \in Times
    BY <1>0, <1>3 DEF ReadClock, LimiterTypeOK
  <2>2. call \in Attempts /\ call.todo = serving[r].todo /\ call.read = now
    BY <2>1 DEF Attempts
  <2>3. Serve(r, call) /\ UNCHANGED <<now, table, history>>
    BY <1>3 DEF ReadClock
  <2>4. now <= now
    BY <2>1, TimesAreNat
  <2> HIDE DEF call
  <2> QED
    BY <2>1, <2>2, <2>3, <2>4, MovesTypes
<1>4. ASSUME NEW r \in Threads, RecordFailure(r)
      PROVE  LimiterTypes'
  <2> DEFINE h == Head(serving[r].todo)
             t == serving[r].read
  <2>1. /\ serving[r].at = "recording" /\ h \in Keys /\ t \in Times /\ t <= now
        /\ \E kept, evicted :
             /\ Count(h, t, kept, evicted)
             /\ evicted \in SUBSET Keys
             /\ DOMAIN kept \subseteq Followed /\ kept \in [DOMAIN kept -> Entries]
        /\ ops' \in 0..(SweepEvery - 1) /\ saturated' \in BOOLEAN
    BY <1>4, RecordCounts
  <2>2. /\ DOMAIN entries' \subseteq Keys
        /\ entries' \in [DOMAIN entries' -> Entries]
        /\ IsFiniteSet(DOMAIN entries')
        /\ Cardinality(DOMAIN entries') <= MaxEntries
        /\ lost' \subseteq Keys /\ ideal' \in [Keys -> Counts] /\ clock' \in 0..now
    BY <2>1, CountTypes
  <2>3. now' = now /\ Continue(r, "failing")
    BY <1>4 DEF RecordFailure
  <2>4. /\ serving' \in [Threads -> Attempts]
        /\ \A q \in Threads : /\ serving'[q].at # "idle" => serving'[q].todo # <<>>
                              /\ serving'[q].at = "recording" => serving'[q] = serving[q]
    BY <2>1, <2>3, NextCall
  <2>5. \A q \in Threads : serving'[q].at = "recording" => serving'[q].read <= now
    BY <2>4 DEF LimiterTypes
  <2> QED
    BY <1>0, <2>1, <2>2, <2>3, <2>4, <2>5
    DEF LimiterTypes, LimiterTypeOK, Followed
<1>5. ASSUME NEW r \in Threads, Clear(r)
      PROVE  LimiterTypes'
  <2> DEFINE h == Head(serving[r].todo)
  <2>1. serving[r].at # "idle" /\ Continue(r, "clearing") /\ Reset(h) /\ now' = now
    BY <1>5 DEF Clear
  <2>2. h \in Keys
    BY <2>1, KeyToTreat
  <2> HIDE DEF h
  <2>3. entries' = [k \in Followed \ {h} |-> entries[k]]
    BY <2>1 DEF Reset, Without, Followed
  <2>4. DOMAIN entries' = Followed \ {h} /\ entries' \in [Followed \ {h} -> Entries]
    BY <1>0, <2>3 DEF LimiterTypeOK
  <2>5. /\ IsFiniteSet(Followed \ {h}) /\ Cardinality(Followed \ {h}) <= MaxEntries
    <3>1. IsFiniteSet(Followed) /\ Cardinality(Followed) <= MaxEntries /\ MaxEntries \in Nat
      BY <1>0, LimitsAssumption DEF LimiterTypes, LimiterTypeOK
    <3>2. IsFiniteSet(Followed \ {h}) /\ Cardinality(Followed \ {h}) <= Cardinality(Followed)
      BY <3>1, FS_Subset
    <3> QED
      BY <3>1, <3>2, FS_CardinalityType
  <2>6. /\ serving' \in [Threads -> Attempts]
        /\ \A q \in Threads : /\ serving'[q].at # "idle" => serving'[q].todo # <<>>
                              /\ serving'[q].at = "recording" => serving'[q] = serving[q]
    BY <2>1, NextCall
  <2>7. \A q \in Threads : serving'[q].at = "recording" => serving'[q].read <= now
    BY <2>6 DEF LimiterTypes
  <2>8. /\ ideal' \in [Keys -> Counts] /\ lost' \subseteq Keys
        /\ clock' = clock /\ ops' = ops /\ saturated' = saturated
    BY <1>0, <2>1, <2>2, NothingIsTyped DEF Reset, LimiterTypeOK
  <2>9. DOMAIN entries' \subseteq Keys
    BY <1>0, <2>4 DEF LimiterTypeOK
  <2> QED
    BY <1>0, <2>1, <2>4, <2>5, <2>6, <2>7, <2>8, <2>9
    DEF LimiterTypes, LimiterTypeOK, Followed
<1>6. CASE UNCHANGED limiterVars
  BY <1>6 DEF limiterVars, table, history, LimiterTypes, LimiterTypeOK, Followed
<1> QED
  BY <1>1, <1>2, <1>3, <1>4, <1>5, <1>6 DEF LimiterNext

LEMMA LimiterInitTypes ==
  ASSUME LimiterInit
  PROVE  LimiterTypes
<1>1. Followed = {} /\ IsFiniteSet(Followed) /\ Cardinality(Followed) = 0
  BY FS_EmptySet DEF LimiterInit, Followed
<1>2. 0 \in Times /\ 0 \in 0..(SweepEvery - 1) /\ 0 <= MaxEntries
  BY TimesAreNat, TimesAssumption, LimitsAssumption DEF Times
<1>3. entries \in [Followed -> Entries] /\ DOMAIN entries = {}
  BY <1>1 DEF LimiterInit, Followed
<1>4. serving \in [Threads -> Attempts] /\ \A r \in Threads : serving[r].at = "idle"
  BY NothingIsTyped DEF LimiterInit, NoAttempt
<1>5. ideal \in [Keys -> Counts] /\ lost = {} /\ clock \in 0..now
  BY NothingIsTyped DEF LimiterInit
<1> QED
  BY <1>1, <1>2, <1>3, <1>4, <1>5 DEF LimiterTypes, LimiterTypeOK, LimiterInit

\* Types of the table and of the requests, and the table never holds more keys than its
\* bound, whatever the clients send.
THEOREM LimiterTypeCorrect ==
  LimiterSpec => []LimiterTypeOK
<1>1. LimiterInit => LimiterTypes
  BY LimiterInitTypes
<1>2. LimiterTypes /\ [LimiterNext]_limiterVars => LimiterTypes'
  BY LimiterNextTypes
<1>3. LimiterTypes => LimiterTypeOK
  BY DEF LimiterTypes
<1> QED
  BY <1>1, <1>2, <1>3, PTL DEF LimiterSpec

--------------------------------------------------------------------------------
(* Blocks *)

\* What Count leaves of a key it is not about.
LEMMA CountSpares ==
  ASSUME NEW h, NEW t, NEW kept, NEW evicted, Count(h, t, kept, evicted),
         NEW k \in DOMAIN kept, k # h
  PROVE  k \in DOMAIN entries' /\ entries'[k] = kept[k]
BY DEF Count

LEMMA StepKeepsBlocks ==
  ASSUME LimiterTypes, [LimiterNext]_limiterVars, NEW k \in Keys, Blocked(k),
         ~ \E r \in Threads : serving[r].at \in {"verifying", "recording", "clearing"} /\ Head(serving[r].todo) = k
  PROVE  k \in DOMAIN entries' /\ entries'[k].until = entries[k].until
<1>0. k \in Followed /\ Followed = DOMAIN entries /\ entries[k].until > now
  BY DEF Blocked, Followed
<1>1. CASE entries' = entries
  BY <1>0, <1>1
<1>2. ASSUME NEW r \in Threads, RecordFailure(r)
      PROVE  k \in DOMAIN entries' /\ entries'[k].until = entries[k].until
  <2> DEFINE h == Head(serving[r].todo)
             t == serving[r].read
  <2>1. /\ serving[r].at = "recording" /\ t \in Times /\ t <= now
        /\ \E kept, evicted :
             /\ Count(h, t, kept, evicted)
             /\ \A l \in Followed \ DOMAIN kept : entries[l].until <= t
             /\ \A l \in DOMAIN kept : kept[l].until = entries[l].until
    BY <1>2, RecordCounts
  <2>2. h # k
    BY <2>1
  <2> HIDE DEF h
  <2>3. PICK kept, evicted :
          /\ Count(h, t, kept, evicted)
          /\ \A l \in Followed \ DOMAIN kept : entries[l].until <= t
          /\ \A l \in DOMAIN kept : kept[l].until = entries[l].until
    BY <2>1
  <2>4. ~(entries[k].until <= t)
    <3>1. entries[k].until \in Nat /\ now \in Nat /\ t \in Nat
      BY <1>0, <2>1, TimesAreNat DEF LimiterTypes, LimiterTypeOK, Entries
    <3> QED
      BY <1>0, <2>1, <3>1
  <2>5. k \in DOMAIN kept
    BY <1>0, <2>3, <2>4
  <2>6. k \in DOMAIN entries' /\ entries'[k] = kept[k]
    BY <2>2, <2>3, <2>5, CountSpares
  <2> QED
    BY <2>3, <2>5, <2>6
<1>3. ASSUME NEW r \in Threads, Clear(r)
      PROVE  k \in DOMAIN entries' /\ entries'[k].until = entries[k].until
  <2>1. Head(serving[r].todo) # k
    BY <1>3 DEF Clear
  <2>2. entries' = [l \in DOMAIN entries \ {Head(serving[r].todo)} |-> entries[l]]
    BY <1>3 DEF Clear, Reset, Without
  <2> QED
    BY <1>0, <2>1, <2>2
<1>4. ASSUME NEW r \in Threads, ReadClock(r) PROVE entries' = entries
  BY <1>4 DEF ReadClock, table
<1>5. ASSUME NEW r \in Threads, NEW a \in Addresses, Admit(r, a) PROVE entries' = entries
  BY <1>5 DEF Admit, table
<1>6. CASE Tick
  BY <1>1, <1>6 DEF Tick, table
<1>7. CASE UNCHANGED limiterVars
  BY <1>1, <1>7 DEF limiterVars, table
<1> QED
  BY <1>1, <1>2, <1>3, <1>4, <1>5, <1>6, <1>7 DEF LimiterNext

\* Nobody but its own requests lifts or shortens a running block, however many keys the
\* clients use and whatever is swept and evicted to make room for them.  The argument is
\* about two clocks: the sweep judges a block by the reading its request took before it
\* waited for the lock, which is never ahead of the clock (LimiterTypes).
THEOREM BlocksAreKept ==
  LimiterSpec => BlockIsKept
<1>1. LimiterInit => LimiterTypes
  BY LimiterInitTypes
<1>2. LimiterTypes /\ [LimiterNext]_limiterVars => LimiterTypes'
  BY LimiterNextTypes
<1>3. LimiterTypes /\ [LimiterNext]_limiterVars
      => [\A k \in Keys : Blocked(k)
            => \/ k \in DOMAIN entries' /\ entries'[k].until = entries[k].until
               \/ \E r \in Threads : serving[r].at \in {"verifying", "recording", "clearing"} /\ Head(serving[r].todo) = k]_limiterVars
  BY StepKeepsBlocks
<1> QED
  BY <1>1, <1>2, <1>3, PTL DEF LimiterSpec, BlockIsKept

--------------------------------------------------------------------------------
(* Exactness *)

\* Two counts of a key that no question asked at `from` or later can tell apart.
Alike(e, c, from) ==
  \A t \in Nat : t >= from => /\ e.until > t <=> c.until > t
                              /\ Prune(e.failures, t) = Prune(c.failures, t)

HeldIn(held, k) == IF k \in DOMAIN held THEN held[k] ELSE Nothing

\* The table and the limiter without bound agree from the latest reading used on.
Exact == \A k \in Keys \ lost : Alike(HeldIn(entries, k), ideal[k], clock)

LEMMA AlikeLater ==
  ASSUME NEW e, NEW c, NEW a \in Nat, NEW b \in Nat, a <= b, Alike(e, c, a)
  PROVE  Alike(e, c, b)
BY DEF Alike

\* Pruning, or dropping what is dead, goes unseen from then on.
LEMMA AlikePruned ==
  ASSUME NEW e \in Entries, NEW d \in Entries, NEW c \in Counts,
         NEW from \in Nat, NEW t \in Nat, t <= from, Alike(e, c, from),
         d.until = e.until, d.failures = Prune(e.failures, t)
  PROVE  Alike(d, c, from)
<1>1. ASSUME NEW s \in Nat, s >= from
      PROVE  Prune(d.failures, s) = Prune(e.failures, s)
  <2>1. e.failures \in Seq(Times) /\ t <= s
    BY <1>1 DEF Entries
  <2> QED
    BY <2>1, PruneTwice
<1> QED
  BY <1>1 DEF Alike

LEMMA AlikeDead ==
  ASSUME NEW e \in Entries, NEW c \in Counts,
         NEW from \in Nat, NEW t \in Nat, t <= from, Alike(e, c, from),
         e.until <= t, Prune(e.failures, t) = <<>>
  PROVE  Alike(Nothing, c, from)
<1>0. Nothing.failures = <<>> /\ Nothing.until = 0
  BY DEF Nothing
<1>1. ASSUME NEW s \in Nat, s >= from
      PROVE  /\ Nothing.until > s <=> e.until > s
             /\ Prune(Nothing.failures, s) = Prune(e.failures, s)
  <2>1. e.failures \in Seq(Times) /\ e.until \in Nat /\ t <= s
    BY <1>1, TimesAreNat DEF Entries
  <2>2. Prune(e.failures, s) = <<>>
    BY <2>1, PruneTwice, PruneNothing
  <2>3. Prune(Nothing.failures, s) = <<>>
    BY <1>0, PruneNothing
  <2>4. ~(e.until > s) /\ ~(Nothing.until > s)
    BY <1>0, <2>1
  <2> QED
    BY <2>2, <2>3, <2>4
<1> QED
  BY <1>1 DEF Alike

\* Equal counts stay so when the same failure is added to both.
LEMMA AlikeCounted ==
  ASSUME NEW e \in Entries, NEW c \in Counts, NEW t \in Times, Alike(e, c, t)
  PROVE  Alike([Counted(e, t) EXCEPT !.seen = t], Counted(c, t), t)
<1> DEFINE failures == Append(Prune(e.failures, t), t)
           d == [Counted(e, t) EXCEPT !.seen = t]
<1>1. t \in Nat /\ Prune(e.failures, t) = Prune(c.failures, t)
  BY TimesAreNat DEF Alike
<1>2. failures = Append(Prune(c.failures, t), t)
  BY <1>1
<1>3. Counted(e, t) \in Entries
  BY CountedFields
<1>4. d.failures = Counted(e, t).failures /\ d.until = Counted(e, t).until
  BY <1>3 DEF Entries
<1> HIDE DEF d, failures
<1>5. CASE Len(failures) >= MaxAttempts
  <2>1. /\ Counted(e, t).failures = <<>> /\ Counted(e, t).until = t + Block
        /\ Counted(c, t).failures = <<>> /\ Counted(c, t).until = t + Block
    BY <1>2, <1>5, CountedFields DEF failures
  <2>2. Alike(d, Counted(c, t), t)
    BY <1>4, <2>1 DEF Alike
  <2> QED
    BY <2>2 DEF d
<1>6. CASE ~(Len(failures) >= MaxAttempts)
  <2>1. /\ Counted(e, t).failures = failures /\ Counted(e, t).until = e.until
        /\ Counted(c, t).failures = failures /\ Counted(c, t).until = c.until
    BY <1>2, <1>6, CountedFields DEF failures
  <2>2. Alike(d, Counted(c, t), t)
    BY <1>4, <2>1 DEF Alike
  <2> QED
    BY <2>2 DEF d
<1> QED
  BY <1>5, <1>6

LEMMA CountIsExact ==
  ASSUME LimiterTypes, Exact, NEW r \in Threads, RecordFailure(r)
  PROVE  Exact'
<1> DEFINE h == Head(serving[r].todo)
           t == serving[r].read
           last == IF t < clock THEN clock ELSE t
<1>1. /\ h \in Keys /\ t \in Times /\ t <= now
      /\ \E kept, evicted :
           /\ Count(h, t, kept, evicted)
           /\ evicted \in SUBSET Keys
           /\ DOMAIN kept \subseteq Followed /\ kept \in [DOMAIN kept -> Entries]
           /\ \A k \in Followed \ DOMAIN kept :
                k \in evicted \/ Prune(entries[k].failures, t) = <<>>
           /\ \A k \in Followed \ DOMAIN kept : entries[k].until <= t
           /\ \A k \in DOMAIN kept :
                /\ kept[k].failures \in {entries[k].failures, Prune(entries[k].failures, t)}
                /\ kept[k].until = entries[k].until
  BY RecordCounts
<1> HIDE DEF h, t
<1>2. PICK kept, evicted :
        /\ Count(h, t, kept, evicted)
        /\ evicted \in SUBSET Keys
        /\ DOMAIN kept \subseteq Followed /\ kept \in [DOMAIN kept -> Entries]
        /\ \A k \in Followed \ DOMAIN kept :
             k \in evicted \/ Prune(entries[k].failures, t) = <<>>
        /\ \A k \in Followed \ DOMAIN kept : entries[k].until <= t
        /\ \A k \in DOMAIN kept :
             /\ kept[k].failures \in {entries[k].failures, Prune(entries[k].failures, t)}
             /\ kept[k].until = entries[k].until
  BY <1>1
<1>3. /\ t \in Nat /\ clock \in Nat /\ last \in Nat /\ clock <= last /\ t <= last
      /\ ideal \in [Keys -> Counts] /\ Followed = DOMAIN entries
      /\ entries \in [Followed -> Entries]
  BY <1>1, TimesAreNat DEF LimiterTypes, LimiterTypeOK, Times, Followed
<1> HIDE DEF last
<1> DEFINE place == h \in DOMAIN kept \/ Cardinality(DOMAIN kept) < MaxEntries
           gone == evicted \cup (IF place THEN {} ELSE {h})
<1>4. /\ lost' = lost \cup gone \cup (IF t < clock THEN {h} ELSE {})
      /\ ideal' = [l \in Keys |-> IF l \in lost' THEN NoCount
                                  ELSE IF l = h THEN Counted(ideal[l], t) ELSE ideal[l]]
      /\ clock' = last
  BY <1>2 DEF Count, Forgets, last
\* What was kept is as exact as what was there.
<1>5. ASSUME NEW k \in Keys, k \notin lost, k \notin evicted
      PROVE  Alike(HeldIn(kept, k), ideal[k], last)
  <2>1. Alike(HeldIn(entries, k), ideal[k], last)
    BY <1>3, <1>5, AlikeLater DEF Exact
  <2>2. ideal[k] \in Counts
    BY <1>3
  <2>3. CASE k \in DOMAIN kept
    <3>1. k \in Followed /\ HeldIn(kept, k) = kept[k] /\ HeldIn(entries, k) = entries[k]
      BY <1>2, <1>3, <2>3 DEF HeldIn
    <3>2. kept[k] \in Entries /\ entries[k] \in Entries /\ kept[k].until = entries[k].until
      BY <1>2, <1>3, <2>3, <3>1
    <3>3. CASE kept[k].failures = Prune(entries[k].failures, t)
      BY <1>3, <2>1, <2>2, <3>1, <3>2, <3>3, AlikePruned
    <3>4. CASE kept[k].failures = entries[k].failures
      BY <2>1, <3>1, <3>2, <3>4 DEF Alike
    <3> QED
      BY <1>2, <2>3, <3>3, <3>4
  <2>4. CASE k \in Followed /\ k \notin DOMAIN kept
    <3>1. HeldIn(kept, k) = Nothing /\ HeldIn(entries, k) = entries[k] /\ entries[k] \in Entries
      BY <1>3, <2>4 DEF HeldIn
    <3>2. Prune(entries[k].failures, t) = <<>> /\ entries[k].until <= t
      BY <1>2, <1>5, <2>4
    <3> QED
      BY <1>3, <2>1, <2>2, <3>1, <3>2, AlikeDead
  <2>5. CASE k \notin Followed
    <3>1. k \notin DOMAIN kept
      BY <1>2, <2>5
    <3>2. HeldIn(kept, k) = HeldIn(entries, k)
      BY <1>3, <2>5, <3>1 DEF HeldIn
    <3> QED
      BY <2>1, <3>2
  <2> QED
    BY <2>3, <2>4, <2>5
<1>6. ASSUME NEW k \in Keys, k \notin lost'
      PROVE  Alike(HeldIn(entries', k), ideal'[k], clock')
  <2>1. k \notin lost /\ k \notin evicted /\ (t < clock => k # h) /\ (~place => k # h)
    BY <1>4, <1>6
  <2>2. Alike(HeldIn(kept, k), ideal[k], last)
    BY <1>5, <2>1
  <2>3. CASE k # h
    <3>1. ideal'[k] = ideal[k]
      BY <1>4, <1>6, <2>3
    <3>2. HeldIn(entries', k) = HeldIn(kept, k)
      BY <1>2, <2>3 DEF Count, HeldIn
    <3> QED
      BY <1>4, <2>2, <3>1, <3>2
  <2>4. CASE k = h
    <3>1. place /\ ~(t < clock)
      BY <2>1, <2>4
    <3>2. last = t /\ ideal'[h] = Counted(ideal[h], t)
      BY <1>4, <1>6, <2>4, <3>1 DEF last
    <3>3. HeldIn(kept, h) = IF h \in DOMAIN kept THEN kept[h] ELSE Nothing
      BY DEF HeldIn
    <3>4. HeldIn(kept, h) \in Entries
      BY <1>2, <3>3, NothingIsTyped
    <3>5. h \in DOMAIN entries' /\ entries'[h] = [Counted(HeldIn(kept, h), t) EXCEPT !.seen = t]
      BY <1>2, <3>1, <3>3 DEF Count
    <3>6. HeldIn(entries', h) = [Counted(HeldIn(kept, h), t) EXCEPT !.seen = t]
      BY <3>5 DEF HeldIn
    <3>7. ideal[h] \in Counts /\ Alike(HeldIn(kept, h), ideal[h], t)
      BY <1>1, <1>3, <2>2, <2>4, <3>2
    <3>8. Alike([Counted(HeldIn(kept, h), t) EXCEPT !.seen = t], Counted(ideal[h], t), t)
      BY <1>1, <3>4, <3>7, AlikeCounted
    <3> QED
      BY <1>4, <2>4, <3>2, <3>6, <3>8
  <2> QED
    BY <2>3, <2>4
<1> QED
  BY <1>6 DEF Exact, HeldIn, Alike

LEMMA ClearIsExact ==
  ASSUME LimiterTypes, Exact, NEW r \in Threads, Clear(r)
  PROVE  Exact'
<1> DEFINE h == Head(serving[r].todo)
<1>1. h \in Keys /\ Reset(h)
  BY KeyToTreat DEF Clear
<1> HIDE DEF h
<1>2. /\ entries' = [k \in DOMAIN entries \ {h} |-> entries[k]]
      /\ ideal' = [ideal EXCEPT ![h] = NoCount]
      /\ lost' = lost \ {h} /\ clock' = clock
  BY <1>1 DEF Reset, Without
<1>3. ideal \in [Keys -> Counts] /\ clock \in Nat
  BY TimesAreNat DEF LimiterTypes, LimiterTypeOK, Times
<1>4. ASSUME NEW k \in Keys, k \notin lost'
      PROVE  Alike(HeldIn(entries', k), ideal'[k], clock')
  <2>1. CASE k = h
    <3>1. HeldIn(entries', k) = Nothing /\ ideal'[k] = NoCount
      BY <1>2, <1>3, <2>1 DEF HeldIn
    <3>2. /\ Nothing.until = NoCount.until
          /\ Nothing.failures = NoCount.failures
      BY DEF Nothing, NoCount
    <3>3. Alike(Nothing, NoCount, clock)
      BY <3>2 DEF Alike
    <3> QED
      BY <1>2, <3>1, <3>3
  <2>2. CASE k # h
    <3>1. HeldIn(entries', k) = HeldIn(entries, k) /\ ideal'[k] = ideal[k] /\ k \notin lost
      BY <1>2, <1>3, <1>4, <2>2 DEF HeldIn
    <3> QED
      BY <1>2, <3>1 DEF Exact
  <2> QED
    BY <2>1, <2>2
<1> QED
  BY <1>4 DEF Exact, HeldIn, Alike

LEMMA NextIsExact ==
  ASSUME LimiterTypes, Exact, [LimiterNext]_limiterVars
  PROVE  Exact'
<1>1. CASE table' = table /\ history' = history
  BY <1>1 DEF table, history, Exact, HeldIn, Alike
<1>2. CASE Tick
  BY <1>1, <1>2 DEF Tick
<1>3. ASSUME NEW r \in Threads, NEW a \in Addresses, Admit(r, a) PROVE Exact'
  BY <1>1, <1>3 DEF Admit
<1>4. ASSUME NEW r \in Threads, ReadClock(r) PROVE Exact'
  BY <1>1, <1>4 DEF ReadClock
<1>5. ASSUME NEW r \in Threads, RecordFailure(r) PROVE Exact'
  BY <1>5, CountIsExact
<1>6. ASSUME NEW r \in Threads, Clear(r) PROVE Exact'
  BY <1>6, ClearIsExact
<1>7. CASE UNCHANGED limiterVars
  BY <1>1, <1>7 DEF limiterVars
<1> QED
  BY <1>2, <1>3, <1>4, <1>5, <1>6, <1>7 DEF LimiterNext

\* A bounded, swept table answers as a limiter that keeps every failure for ever would, for
\* every key that was neither evicted nor refused a place.  Agreeing now is not inductive,
\* since the next failure is counted at a later time: the invariant (Exact) says that the
\* two agree at every time from the latest reading of the clock on, and that is kept
\* because pruning twice is pruning once (PruneTwice).
THEOREM LimiterExact ==
  LimiterSpec => []LimiterIsExact
<1>1. LimiterInit => LimiterTypes
  BY LimiterInitTypes
<1>2. LimiterTypes /\ [LimiterNext]_limiterVars => LimiterTypes'
  BY LimiterNextTypes
<1>3. LimiterInit => Exact
  <2>1. ASSUME LimiterInit, NEW k \in Keys
        PROVE  Alike(HeldIn(entries, k), ideal[k], clock)
    <3>1. HeldIn(entries, k) = Nothing /\ ideal[k] = NoCount
      BY <2>1 DEF LimiterInit, HeldIn
    <3>2. /\ Nothing.until = NoCount.until
          /\ Nothing.failures = NoCount.failures
      BY DEF Nothing, NoCount
    <3> QED
      BY <3>1, <3>2 DEF Alike
  <2> QED
    BY <2>1 DEF Exact
<1>4. LimiterTypes /\ Exact /\ [LimiterNext]_limiterVars => Exact'
  BY NextIsExact
<1>5. LimiterTypes /\ Exact => LimiterIsExact
  <2>1. ASSUME LimiterTypes, Exact, NEW k \in Keys \ lost
        PROVE  /\ HeldIn(entries, k).until > now <=> ideal[k].until > now
               /\ Prune(HeldIn(entries, k).failures, now) = Prune(ideal[k].failures, now)
    <3>1. now \in Nat /\ now >= clock
      BY <2>1, TimesAreNat DEF LimiterTypes, LimiterTypeOK, Times
    <3>2. Alike(HeldIn(entries, k), ideal[k], clock)
      BY <2>1 DEF Exact
    <3> QED
      BY <3>1, <3>2 DEF Alike
  <2> QED
    BY <2>1 DEF LimiterIsExact, HeldIn, Followed
<1> QED
  BY <1>1, <1>2, <1>3, <1>4, <1>5, PTL DEF LimiterSpec
================================================================================
