------------------------------ MODULE AdminAccess ------------------------------
(***************************************************************************)
(* The single administrator account, its sessions and their revocation     *)
(* (api/routes/auth.py, api/security.py, admin_setup.py and the account     *)
(* rows of services/runtime_config.py).                                     *)
(*                                                                          *)
(* Everything the account is lives in three rows of `runtime_config`: the   *)
(* hash, the address, and the generation of the sessions.  No transaction   *)
(* covers two of them.  A request reads the whole table once, works on that *)
(* copy until it writes, and each write is a COMMIT of its own that throws  *)
(* the copy away.  The synchronous routes run in threads and the command    *)
(* line in another process, so that these steps interleave freely.          *)
(***************************************************************************)
EXTENDS Naturals

CONSTANTS
  Requests,     \* slots for HTTP requests and runs of the command line
  Passwords,    \* passwords that may be chosen
  NoPassword,   \* no hash is stored
  MaxGen        \* bound on the generation of the sessions

ASSUME PasswordAssumption == NoPassword \notin Passwords
ASSUME MaxGenAssumption == MaxGen \in Nat

VARIABLES
  db,        \* the three rows: hash, whether there is an address, generation
  cookies,   \* every cookie issued: its generation, the password it was opened with
  req,       \* what each request is doing, and its copy of the rows
  broken     \* history: what an interrupted or overtaken request has broken

vars == <<db, cookies, req, broken>>

--------------------------------------------------------------------------------
(* Types *)

Rows == [hash : Passwords \cup {NoPassword}, identity : BOOLEAN, gen : 0..MaxGen]

NoRows == [hash |-> NoPassword, identity |-> FALSE, gen |-> 0]

Cookies == [gen : 0..MaxGen, pw : Passwords]

Ops == {"login", "logout", "setup", "create", "force", "change", "email"}

Points == {"idle", "verify", "check", "hash", "readIdentity", "identity", "readGen", "gen", "open"}

\* `new` is the password to store, `mail` whether an address comes with it.
Calls == [op : Ops, at : Points, new : Passwords \cup {NoPassword}, mail : BOOLEAN, rows : Rows]

Idle == [op |-> "login", at |-> "idle", new |-> NoPassword, mail |-> FALSE, rows |-> NoRows]

Breaches == {"rotation", "identity", "generation", "setup"}

\* A set-up is refused when a hash is there; --force and a rotation replace it.
Replaces(op) == op \in {"force", "change"}

\* From the COMMIT of the hash to the COMMIT of the generation.
Unfinished(c) == c.at \in {"readIdentity", "identity", "readGen", "gen"} /\ c.op \notin {"logout", "email"}

Init ==
  /\ db = NoRows
  /\ cookies = {}
  /\ req = [r \in Requests |-> Idle]
  /\ broken = {}

Step(r, call) == req' = [req EXCEPT ![r] = call]

\* After a COMMIT the copy of the rows is thrown away.
Goto(r, point) == Step(r, [req[r] EXCEPT !.at = point, !.rows = NoRows])

\* The copy a request takes of the table the first time it needs a row.
ReadRows(r, point) == Step(r, [req[r] EXCEPT !.at = point, !.rows = db])

Answer(r) == Step(r, Idle)

\* A request that ends between its writes, by an error of the database, a conflict
\* on a primary key, or because the container is killed.
BrokenBy(c) ==
  (IF Unfinished(c) THEN {"rotation"} ELSE {})
    \cup (IF c.mail /\ Unfinished(c) /\ c.at \in {"readIdentity", "identity"} THEN {"identity"} ELSE {})

Fail(r) ==
  /\ Answer(r)
  /\ broken' = broken \cup BrokenBy(req[r])
  /\ UNCHANGED <<db, cookies>>

--------------------------------------------------------------------------------
(* Sessions *)

\* require_auth and session_is_authenticated: one copy of the rows answers both questions.
Accepted(c) == db.hash # NoPassword /\ c.gen = db.gen

\* verify_login on a copy of the rows, for the right address.
Verifies(rows, pw) == rows.hash = pw /\ rows.hash # NoPassword /\ rows.identity

\* The password is verified against the copy, and the session will carry the
\* generation of the same copy: the slow Argon2 check comes in between.
LoginVerifies(r) ==
  /\ req[r].at = "idle"
  /\ \E pw \in Passwords : Verifies(db, pw)
  /\ Step(r, [Idle EXCEPT !.at = "open", !.rows = db])
  /\ UNCHANGED <<db, cookies, broken>>

\* Mutant: the generation is read when the session opens, not with the hash.
LoginOpensSessionAfresh(r) ==
  /\ req[r].at = "open" /\ req[r].op = "login"
  /\ cookies' = cookies \cup {[gen |-> db.gen, pw |-> req[r].rows.hash]}
  /\ Answer(r)
  /\ UNCHANGED <<db, broken>>

\* start_session after a login.
LoginOpensSession(r) ==
  /\ req[r].at = "open" /\ req[r].op = "login"
  /\ cookies' = cookies \cup {[gen |-> req[r].rows.gen, pw |-> req[r].rows.hash]}
  /\ Answer(r)
  /\ UNCHANGED <<db, broken>>

\* start_session after a set-up reads the generation afresh, the copy being gone.
SetupOpensSession(r) ==
  /\ req[r].at = "open" /\ req[r].op = "setup"
  /\ cookies' = cookies \cup {[gen |-> db.gen, pw |-> req[r].new]}
  /\ broken' = IF db.hash = req[r].new THEN broken ELSE broken \cup {"setup"}
  /\ Answer(r)
  /\ UNCHANGED db

\* POST /logout with any cookie that says "authenticated": its generation is not compared.
Logout(r) ==
  /\ req[r].at = "idle"
  /\ cookies # {}
  /\ Step(r, [Idle EXCEPT !.op = "logout", !.at = "readGen"])
  /\ UNCHANGED <<db, cookies, broken>>

--------------------------------------------------------------------------------
(* The account *)

\* POST /setup, and the command line, which looks at the account and closes its session
\* before it waits for a password; what is not valid is refused here, before any write.
Begin(r, op, pw, mail) ==
  /\ req[r].at = "idle"
  /\ \/ op = "setup" /\ mail
     \/ op \in {"create", "force"} /\ (mail \/ db.identity)
  /\ Step(r, [Idle EXCEPT !.op = op, !.at = "check", !.new = pw, !.mail = mail])
  /\ UNCHANGED <<db, cookies, broken>>

\* admin_setup --email-only: the account must exist.
BeginEmailOnly(r) ==
  /\ req[r].at = "idle"
  /\ db.hash # NoPassword
  /\ Step(r, [Idle EXCEPT !.op = "email", !.at = "readIdentity", !.mail = TRUE])
  /\ UNCHANGED <<db, cookies, broken>>

\* POST /password: require_auth, in a session of its own.
AdmitChange(r, pw) ==
  /\ req[r].at = "idle"
  /\ \E c \in cookies : Accepted(c)
  /\ Step(r, [Idle EXCEPT !.op = "change", !.at = "verify", !.new = pw])
  /\ UNCHANGED <<db, cookies, broken>>

\* The handler verifies the current password on its own copy of the rows.
VerifyCurrent(r) ==
  /\ req[r].at = "verify"
  /\ \E pw \in Passwords : Verifies(db, pw)
  /\ ReadRows(r, "hash")
  /\ UNCHANGED <<db, cookies, broken>>

\* is_secret_set, unless forced.
CheckAccount(r) ==
  /\ req[r].at = "check"
  /\ \/ /\ db.hash # NoPassword /\ ~Replaces(req[r].op)
        /\ Answer(r)
     \/ /\ db.hash = NoPassword \/ Replaces(req[r].op)
        /\ ReadRows(r, "hash")
  /\ UNCHANGED <<db, cookies, broken>>

\* Mutant: the hash is merged into the table, no key can collide.
WriteHashMerged(r) ==
  /\ req[r].at = "hash"
  /\ db' = [db EXCEPT !.hash = req[r].new]
  /\ Goto(r, IF req[r].mail THEN "readIdentity" ELSE "readGen")
  /\ UNCHANGED <<cookies, broken>>

\* _upsert of the hash: UPDATE when the copy has the row, else INSERT, which fails on the
\* primary key if another request was faster (409 already_configured).
WriteHash(r) ==
  /\ req[r].at = "hash"
  /\ \/ /\ req[r].rows.hash # NoPassword \/ db.hash = NoPassword
        /\ db' = [db EXCEPT !.hash = req[r].new]
        /\ Goto(r, IF req[r].mail THEN "readIdentity" ELSE "readGen")
        /\ UNCHANGED <<cookies, broken>>
     \/ /\ req[r].rows.hash = NoPassword /\ db.hash # NoPassword
        /\ Fail(r)

\* Mutant: the address is validated once the hash is stored.
ReadIdentityOrRefuse(r) ==
  /\ req[r].at = "readIdentity"
  /\ ReadRows(r, "identity") \/ Answer(r)
  /\ UNCHANGED <<db, cookies, broken>>

\* set_admin_identity reads the former address,
ReadIdentity(r) ==
  /\ req[r].at = "readIdentity"
  /\ ReadRows(r, "identity")
  /\ UNCHANGED <<db, cookies, broken>>

\* then inserts or updates it and, with --email-only, ends there.
WriteIdentity(r) ==
  /\ req[r].at = "identity"
  /\ \/ /\ req[r].rows.identity \/ ~db.identity
        /\ db' = [db EXCEPT !.identity = TRUE]
        /\ IF req[r].op = "email" THEN Answer(r) ELSE Goto(r, "readGen")
        /\ UNCHANGED <<cookies, broken>>
     \/ /\ ~req[r].rows.identity /\ db.identity
        /\ Fail(r)

\* bump_session_version reads the generation,
ReadGeneration(r) ==
  /\ req[r].at = "readGen"
  /\ db.gen < MaxGen
  /\ ReadRows(r, "gen")
  /\ UNCHANGED <<db, cookies, broken>>

\* Mutant: whoever revokes is given a new session.
WriteGenerationThenOpen(r) ==
  /\ req[r].at = "gen"
  /\ req[r].rows.gen > 0 \/ db.gen = 0
  /\ db' = [db EXCEPT !.gen = req[r].rows.gen + 1]
  /\ Goto(r, "open")
  /\ UNCHANGED <<cookies, broken>>

\* and writes the next one, whatever the row has become: an UPDATE compares nothing.
\* The first generation is an INSERT, and fails when another request inserted it.
WriteGeneration(r) ==
  LET next == req[r].rows.gen + 1 IN
  /\ req[r].at = "gen"
  /\ \/ /\ req[r].rows.gen > 0 \/ db.gen = 0
        /\ db' = [db EXCEPT !.gen = next]
        /\ broken' = IF next > db.gen THEN broken \ {"rotation"}
                     ELSE IF next < db.gen THEN broken \cup {"generation"} ELSE broken
        /\ IF req[r].op = "setup" THEN Goto(r, "open") ELSE Answer(r)
        /\ UNCHANGED cookies
     \/ /\ req[r].rows.gen = 0 /\ db.gen > 0
        /\ Fail(r)

\* The database fails the next statement of a request; the end of the container is that
\* for all of them.
Abort(r) ==
  /\ req[r].at # "idle"
  /\ Fail(r)

Next ==
  \E r \in Requests :
    \/ LoginVerifies(r)
    \/ LoginOpensSession(r)
    \/ SetupOpensSession(r)
    \/ Logout(r)
    \/ \E op \in {"setup", "create", "force"}, pw \in Passwords, mail \in BOOLEAN :
         Begin(r, op, pw, mail)
    \/ BeginEmailOnly(r)
    \/ \E pw \in Passwords : AdmitChange(r, pw)
    \/ VerifyCurrent(r)
    \/ CheckAccount(r)
    \/ WriteHash(r)
    \/ ReadIdentity(r)
    \/ WriteIdentity(r)
    \/ ReadGeneration(r)
    \/ WriteGeneration(r)
    \/ Abort(r)

Spec == Init /\ [][Next]_vars

--------------------------------------------------------------------------------
(* Properties *)

\* A request is at a point of its own operation, and a session is only ever opened
\* with a password, never from an account without one (security.py:172-185).
AtItsPoint(c) ==
  /\ c.at \in {"verify", "check", "hash"} \/ (c.op = "setup" /\ c.at # "idle") => c.new \in Passwords
  /\ c.at = "open" => IF c.op = "login" THEN c.rows.hash \in Passwords
                      ELSE c.op = "setup" /\ c.new \in Passwords
  /\ c.at = "gen" => c.rows.gen < MaxGen

TypeOK ==
  /\ db \in Rows
  /\ cookies \in SUBSET Cookies
  /\ req \in [Requests -> Calls]
  /\ broken \in SUBSET Breaches
  /\ \A r \in Requests : AtItsPoint(req[r])

\* A session opened with a password that has been replaced is not accepted any more
\* (admin_setup.py:97-100), although hash and generation are two COMMITs and a login may
\* be half-way through: but while the change is under way, if it was cut short and nothing
\* was revoked since, if a slow revocation put an earlier generation back, or if the
\* password was replaced before the set-up that chose it had opened its session.
SessionsFollowThePassword ==
  \A c \in cookies :
    Accepted(c) /\ c.pw # db.hash
      => \/ \E r \in Requests : Unfinished(req[r])
         \/ broken \cap {"rotation", "generation", "setup"} # {}

\* The account is claimed once: after that only a rotation from a session that knew the
\* password, or the command line with --force, replaces the hash.  Two set-ups that both
\* saw an empty table do not overwrite one another (auth.py:166-173).
AccountIsClaimedOnce ==
  [][db'.hash # db.hash
       => \/ db.hash = NoPassword
          \/ \E r \in Requests : req[r].at = "hash" /\ Replaces(req[r].op)]_vars

\* An account without an address, at which no login succeeds and which no set-up repairs,
\* is only seen while somebody is about to write the address, or after he was interrupted
\* (admin_setup.py:76-79).
AccountHasAddress ==
  db.hash # NoPassword /\ ~db.identity
    => \/ \E r \in Requests : req[r].mail /\ req[r].at \in {"readIdentity", "identity"}
       \/ "identity" \in broken

\* What runtime_config.py:380 says of a bump, "TOUS les cookies deja emis deviennent
\* invalides": a generation that is over does not come back.
RevokedStaysRevoked == [][db'.gen >= db.gen]_vars

================================================================================
