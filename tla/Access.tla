-------------------------------- MODULE Access --------------------------------
(***************************************************************************)
(* Who may use emrs: logging in (routes/users.rs, emrs-service/auth.rs),   *)
(* the table of tokens (auth_store.rs), and auth_guard (middleware.rs),    *)
(* which every request but the public ones passes before its handler.      *)
(* Requests interleave at every await.  What the tables say is kept apart  *)
(* from what the cache remembers of them: the kind of a token for 300 s,   *)
(* the failed logins of an address for 600 s.                              *)
(*                                                                         *)
(* A user's password is right or wrong.  Rows of auth_login_event, the two *)
(* "last used" columns and the texts of answers are left out, and so is    *)
(* the master key, which passes the guard without any table.               *)
(***************************************************************************)
EXTENDS Integers, FiniteSets, Sequences, SequencesExt

CONSTANTS
  Role,       \* name of a user -> "user" or "admin"
  Nobody,     \* a name without a user
  Open,       \* users with an empty password_hash
  Ip, Slot,   \* addresses; requests under way at once
  LoginLimit, \* LOGIN_FAIL_LIMIT
  Issued,     \* rows of auth_token at the start
  MaxRequests, MaxTokens, MaxChanges, \* bounds
  MaxEvents,  \* bound: requests and changes together
  Faults      \* TRUE when statements may fail, requests be given up, the server restart

User == DOMAIN Role

ASSUME AccessAssumption ==
  /\ Nobody \notin User /\ Open \subseteq User /\ LoginLimit \in Nat \ {0}
  /\ Issued \in Seq([user : User, kind : {"user", "admin"}, revoked : BOOLEAN])
  /\ {MaxRequests, MaxTokens, MaxChanges, MaxEvents} \subseteq Nat /\ Faults \in BOOLEAN

VARIABLES
  disabled,  \* users with is_disabled
  tokens,    \* rows of auth_token in the order of their making
  seen,      \* "auth:" keys of the cache: token -> kind, "none" when there is no entry
  fails,     \* "login:fail:" keys: address -> count, 0 when there is no entry
  req,       \* slot -> request under way
  requests, changes, \* counters for the bounds
  misses,    \* history: address -> wrong logins counted since the entry last went
  mixed      \* history: addresses where logins overlapped since nothing was counted

access == <<disabled, tokens, seen, fails, requests, changes, misses, mixed>>

(* Steps of authenticate_by_name, of admin_login, and of the guard. *)
LoginStep == {"find", "record", "count", "insert", "clear"}
AdminStep == {"find admin", "insert admin"}
GuardStep == {"hit", "admin", "user", "keep"}
Idle == [at |-> "idle", ip |-> Nobody, user |-> Nobody, right |-> FALSE, count |-> 0,
         token |-> 0, kind |-> "none", route |-> "", valid |-> FALSE]

InitAccess ==
  /\ disabled = {} /\ tokens = Issued /\ seen = [t \in DOMAIN Issued |-> "none"]
  /\ fails = [ip \in Ip |-> 0] /\ misses = fails /\ mixed = {}
  /\ req = [s \in Slot |-> Idle] /\ requests = 0 /\ changes = 0

-----------------------------------------------------------------------------
(* The tables.                                                             *)

(* verify_token: the row of this kind, not revoked, of a user not disabled. *)
Valid(t, kind) ==
  /\ t \in DOMAIN tokens /\ tokens[t].kind = kind /\ ~tokens[t].revoked
  /\ tokens[t].user \notin disabled

NewToken(user, kind) ==
  /\ Len(tokens) < MaxTokens
  /\ tokens' = Append(tokens, [user |-> user, kind |-> kind, revoked |-> FALSE])
  /\ seen' = Append(seen, "none")

Asked == requests < MaxRequests /\ requests + changes < MaxEvents /\ requests' = requests + 1
To(s, at) == req' = [req EXCEPT ![s].at = at]
Answer(s) == req' = [req EXCEPT ![s] = Idle]
Begin(s, r) ==
  /\ req[s].at = "idle" /\ Asked
  /\ req' = [req EXCEPT ![s] = r]

-----------------------------------------------------------------------------
(* AuthenticateByName.                                                     *)

LogsIn(ip) == \E s \in Slot : req[s].ip = ip /\ req[s].at \in LoginStep

(* login_fail_allowed, and the device that has to be named.  An address that
   failed too often is answered 429. *)
Allowed(ip) == fails[ip] < LoginLimit
Login(s, ip, user, right) ==
  /\ Begin(s, IF Allowed(ip) THEN [Idle EXCEPT !.at = "find", !.ip = ip, !.user = user, !.right = right] ELSE Idle)
  /\ mixed' = IF LogsIn(ip) THEN mixed \cup {ip} ELSE mixed
  /\ UNCHANGED <<disabled, tokens, seen, fails, changes, misses>>

(* find_user, then the password, then is_disabled. *)
FindUser(s) ==
  /\ req[s].at = "find"
  /\ LET u == req[s].user
     IN IF u = Nobody \/ ~(u \in Open \/ req[s].right) THEN To(s, "record")
        ELSE IF u \in disabled THEN Answer(s)
        ELSE To(s, "insert")
  /\ UNCHANGED access

(* login_fail_record: get, then set. *)
ReadFails(s) ==
  /\ req[s].at = "record"
  /\ req' = [req EXCEPT ![s].at = "count", ![s].count = fails[req[s].ip]]
  /\ UNCHANGED access
CountFail(s) ==
  /\ req[s].at = "count"
  /\ LET ip == req[s].ip
     IN /\ fails' = [fails EXCEPT ![ip] = req[s].count + 1]
        /\ misses' = [misses EXCEPT ![ip] = @ + 1]
  /\ Answer(s)
  /\ UNCHANGED <<disabled, tokens, seen, requests, changes, mixed>>

(* insert_token, then login_fail_clear; the answer carries the token.
   Mutant: the count is not cleared. *)
InsertToken(s) ==
  /\ req[s].at = "insert" /\ NewToken(req[s].user, "user")
  /\ To(s, "clear")
  /\ UNCHANGED <<disabled, fails, requests, changes, misses, mixed>>
ClearNothing(s) ==
  /\ req[s].at = "clear"
  /\ misses' = [misses EXCEPT ![req[s].ip] = 0]
  /\ Answer(s)
  /\ UNCHANGED <<disabled, tokens, seen, fails, requests, changes, mixed>>
ClearFails(s) ==
  /\ req[s].at = "clear"
  /\ fails' = [fails EXCEPT ![req[s].ip] = 0] /\ misses' = [misses EXCEPT ![req[s].ip] = 0]
  /\ Answer(s)
  /\ UNCHANGED <<disabled, tokens, seen, requests, changes, mixed>>

(* admin_login: no count of failures, an empty hash verifies nothing, and a
   disabled admin is given a token all the same. *)
AdminLogin(s, user, right) ==
  /\ Begin(s, [Idle EXCEPT !.at = "find admin", !.user = user, !.right = right])
  /\ UNCHANGED <<disabled, tokens, seen, fails, changes, misses, mixed>>
FindAdmin(s) ==
  /\ req[s].at = "find admin"
  /\ LET u == req[s].user
     IN IF u \in User \ Open /\ Role[u] = "admin" /\ req[s].right THEN To(s, "insert admin") ELSE Answer(s)
  /\ UNCHANGED access
InsertAdminToken(s) ==
  /\ req[s].at = "insert admin" /\ NewToken(req[s].user, "admin")
  /\ Answer(s)
  /\ UNCHANGED <<disabled, fails, requests, changes, misses, mixed>>

-----------------------------------------------------------------------------
(* auth_guard.                                                             *)

(* extract_token: the tokens made so far, and 0 for one nobody was given.
   Without any token the request ends here or, on a compatible path, is handled
   as nobody's. *)
Carried == 0 .. Len(tokens)
(* The cache is read first, and says where to look. *)
Ask(s, t, route) ==
  /\ LET cached == IF t \in DOMAIN seen THEN seen[t] ELSE "none"
     IN Begin(s, [Idle EXCEPT !.at = IF cached = "none" THEN "admin" ELSE "hit", !.kind = cached,
                              !.token = t, !.route = route,
                              !.valid = Valid(t, "admin") \/ Valid(t, "user")])
  /\ UNCHANGED <<disabled, tokens, seen, fails, changes, misses, mixed>>

(* A hit is verified like a miss, and falls through to it.  Mutant: what the
   cache says is enough. *)
HitIsEnough(s) == req[s].at = "hit" /\ To(s, "run") /\ UNCHANGED access
VerifyHit(s) ==
  /\ req[s].at = "hit"
  /\ To(s, IF Valid(req[s].token, req[s].kind) THEN "run" ELSE "admin")
  /\ UNCHANGED access

(* verify_admin_token, verify_user_token.  A SELECT that fails is taken for no
   row. *)
Compatible == {"Sessions", "Counts", "Info"}
NotFound(s, kind) ==
  IF kind = "admin" THEN To(s, "user")
  ELSE IF req[s].route \in Compatible THEN req' = [req EXCEPT ![s].at = "run", ![s].token = 0]
  ELSE Answer(s)
Verify(s, kind) ==
  /\ req[s].at = kind
  /\ \/ Valid(req[s].token, kind) /\ req' = [req EXCEPT ![s].at = "keep", ![s].kind = kind]
     \/ (~Valid(req[s].token, kind) \/ Faults) /\ NotFound(s, kind)
  /\ UNCHANGED access
Keep(s) ==
  /\ req[s].at = "keep"
  /\ seen' = [seen EXCEPT ![req[s].token] = req[s].kind]
  /\ To(s, "run")
  /\ UNCHANGED <<disabled, tokens, fails, requests, changes, misses, mixed>>

-----------------------------------------------------------------------------
(* Beside the requests.                                                    *)

(* revoke_token, and a user disabled in the table: the server has no route for
   either. *)
Change == changes < MaxChanges /\ requests + changes < MaxEvents /\ changes' = changes + 1
Revoke(t) ==
  /\ Change /\ t \in DOMAIN tokens /\ tokens' = [tokens EXCEPT ![t].revoked = TRUE]
  /\ UNCHANGED <<disabled, seen, fails, req, requests, misses, mixed>>
Disable(u) ==
  /\ Change /\ disabled' = disabled \cup {u}
  /\ UNCHANGED <<tokens, seen, fails, req, requests, misses, mixed>>

(* The window of an entry ends. *)
Lapse(ip) ==
  /\ Change /\ fails[ip] > 0 /\ fails' = [fails EXCEPT ![ip] = 0]
  /\ misses' = [misses EXCEPT ![ip] = 0]
  /\ mixed' = IF LogsIn(ip) THEN mixed \cup {ip} ELSE mixed \ {ip}
  /\ UNCHANGED <<disabled, tokens, seen, req, requests>>
Forget(t) ==
  /\ Change /\ t \in DOMAIN seen /\ seen' = [seen EXCEPT ![t] = "none"]
  /\ UNCHANGED <<disabled, tokens, fails, req, requests, misses, mixed>>

(* A login's statement fails, a client hangs up, or api_timeout runs out: the
   request is dropped where it waits. *)
GiveUp(s) == Faults /\ req[s].at # "idle" /\ Answer(s) /\ UNCHANGED access

(* Tokens are in the database, the rest was in memory. *)
Restart ==
  /\ Change /\ Faults
  /\ req' = [s \in Slot |-> Idle] /\ seen' = [t \in DOMAIN tokens |-> "none"]
  /\ fails' = [ip \in Ip |-> 0] /\ misses' = fails' /\ mixed' = {}
  /\ UNCHANGED <<disabled, tokens, requests>>

AccessNext ==
  \/ \E s \in Slot :
       \/ \E ip \in Ip, u \in User \cup {Nobody}, right \in BOOLEAN : Login(s, ip, u, right)
       \/ \E u \in User \cup {Nobody}, right \in BOOLEAN : AdminLogin(s, u, right)
       \/ FindUser(s) \/ ReadFails(s) \/ CountFail(s) \/ InsertToken(s) \/ ClearFails(s)
       \/ FindAdmin(s) \/ InsertAdminToken(s)
       \/ VerifyHit(s) \/ Keep(s)
       \/ \E kind \in {"admin", "user"} : Verify(s, kind)
  \/ \E t \in DOMAIN tokens : Revoke(t) \/ Forget(t)
  \/ \E u \in User : Disable(u)
  \/ \E ip \in Ip : Lapse(ip)

-----------------------------------------------------------------------------
(* Properties.                                                             *)

(* A handler is never run for a token that was already revoked, or whose user
   was already disabled, when the request arrived, whatever the cache still
   holds of it. *)
GrantIsValid ==
  \A s \in Slot : req[s].at \notin GuardStep /\ req[s].token # 0 => req[s].valid

(* Where logins of an address do not overlap, its wrong ones are counted one by
   one, a good one clears the count, and no more of them are tried than the
   limit. *)
FailuresCounted ==
  \A ip \in Ip \ mixed : fails[ip] = misses[ip] /\ misses[ip] <= LoginLimit
=============================================================================
