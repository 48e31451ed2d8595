---------------------------- MODULE PlaybackProofs ----------------------------
(* Proofs about Playback and the Access it contains, for any number of users,
   addresses, requests at a time, sources and subtitle files, any login limit,
   and whether or not statements fail. *)
EXTENDS Playback, SequenceTheorems, FiniteSetTheorems, WellFoundedInduction, TLAPS

(***************************************************************************)
(* The inductive invariant.                                                *)
(***************************************************************************)

TokenRow == [user : User \cup {Nobody}, kind : {"user", "admin"}, revoked : BOOLEAN]
Kinds == {"none", "user", "admin"}
At == {"idle", "run", "spawn", "list", "subtitle", "answered"} \cup LoginStep \cup AdminStep \cup GuardStep
ReqType == [at : At,
            ip : Ip \cup {Nobody}, user : User \cup {Nobody}, right : BOOLEAN, count : Nat,
            token : Nat, kind : Kinds, route : Routes \cup {""}, valid : BOOLEAN]

(* Logins come from an address. *)
Located(r) == r.at \in LoginStep => r.ip \in Ip

Typed ==
  /\ tokens \in Seq(TokenRow) /\ seen \in Seq(Kinds)
  /\ fails \in [Ip -> Nat] /\ misses \in [Ip -> Nat]
  /\ req \in [Slot -> ReqType] /\ \A s \in Slot : Located(req[s])

(* A guard that still looks for the token has been told the truth about it, or
   the token is worse by now; a request past the guard was granted. *)
Looking == {"hit", "admin", "user"}
Good(t) == Valid(t, "admin") \/ Valid(t, "user")
Granted ==
  \A s \in Slot :
    /\ req[s].token <= Len(tokens)
    /\ IF req[s].at \in Looking THEN Good(req[s].token) => req[s].valid
       ELSE req[s].token # 0 => req[s].valid

(* Where logins do not overlap one is under way at a time, and it was let in
   below the limit. *)
In(s, ip) == req[s].at \in LoginStep /\ req[s].ip = ip
OneByOne ==
  \A ip \in Ip \ mixed :
    /\ fails[ip] = misses[ip] /\ misses[ip] <= LoginLimit
    /\ \A s \in Slot : In(s, ip) => /\ fails[ip] < LoginLimit
                                    /\ req[s].at = "count" => req[s].count = fails[ip]
    /\ \A s, r \in Slot : In(s, ip) /\ In(r, ip) => s = r

(* One probe of a source at a time is under way, and if it has streams already
   the probe is stale. *)
Probed ==
  /\ running \in [1 .. MaxMedia -> Nat] /\ nextMedia \in Nat \ {0}
  /\ DOMAIN media \subseteq 1 .. nextMedia - 1
  /\ \A k \in 1 .. MaxMedia : running[k] <= 1 /\ (running[k] > 0 => k \in probing)
  /\ \A k \in DOMAIN media \cap (1 .. MaxMedia) : running[k] > 0 /\ media[k].info # <<>> => k \in stale

IInv == Typed /\ Granted /\ OneByOne /\ Probed

-----------------------------------------------------------------------------
(***************************************************************************)
(* What a step does to a request.                                          *)
(***************************************************************************)

(* How the request of a slot may go on: without a token, with one the guard has
   just been handed, or with the one it had. *)
GoesOn(old, r) ==
  \/ r.token = 0
  \/ r.at \in Looking /\ r.token <= Len(tokens) /\ r.valid = Good(r.token)
  \/ /\ r.token = old.token /\ r.valid = old.valid
     /\ \/ old.at \in Looking /\ r.at \in Looking
        \/ old.at \in Looking /\ Good(old.token)
        \/ old.at \notin Looking /\ r.at \notin Looking
SlotMoves(s) == \E r \in ReqType : req' = [req EXCEPT ![s] = r] /\ Located(r) /\ GoesOn(req[s], r)
ReqMoves == req' = req \/ req' = [s \in Slot |-> Idle] \/ \E s \in Slot : SlotMoves(s)

(* Tokens are appended or revoked, users disabled: no token gets better. *)
TokensMove ==
  /\ Len(tokens') >= Len(tokens)
  /\ \A t \in 0 .. Len(tokens) : Good(t)' => Good(t)

(* A request that is not logging in afterwards moves no count. *)
NoLogin == \E s \in Slot, r \in ReqType : req' = [req EXCEPT ![s] = r] /\ r.at \notin LoginStep

-----------------------------------------------------------------------------
(* Sequences: a wider set of members, one member changed. *)
LEMMA WiderSeq == ASSUME NEW S, NEW T, S \subseteq T, NEW q \in Seq(S) PROVE q \in Seq(T)
<1>1. Len(q) \in Nat /\ DOMAIN q = 1 .. Len(q) /\ \A i \in 1 .. Len(q) : q[i] \in T
  OBVIOUS
<1>2. q = [i \in 1 .. Len(q) |-> q[i]]
  OBVIOUS
<1>3. [i \in 1 .. Len(q) |-> q[i]] \in Seq(T)
  BY <1>1
<1> QED BY <1>2, <1>3

(* Setting one member of a sequence keeps it a sequence, in or out of its domain. *)
LEMMA ExceptKeepsSeq == ASSUME NEW S, NEW q \in Seq(S), NEW k, NEW x \in S PROVE [q EXCEPT ![k] = x] \in Seq(S)
<1>1. CASE k \in 1 .. Len(q)
  BY <1>1, ExceptSeq
<1>2. CASE k \notin 1 .. Len(q)
  <2>1. DOMAIN q = 1 .. Len(q) /\ q = [i \in DOMAIN q |-> q[i]]
    OBVIOUS
  <2>2. [q EXCEPT ![k] = x] = [i \in DOMAIN q |-> q[i]]
    BY <1>2, <2>1
  <2> QED BY <2>1, <2>2
<1> QED BY <1>1, <1>2

(* A slot with no request is typed and carries no token. *)
LEMMA IdleTyped == Idle \in ReqType /\ Idle.at = "idle" /\ Idle.token = 0
BY DEF Idle, ReqType, Kinds, At

(* Init holds the invariant. *)
LEMMA InitHolds == Init => IInv
<1> SUFFICES ASSUME Init PROVE IInv
  OBVIOUS
<1> USE DEF Init, InitAccess
<1>1. Typed
  <2>1. seen \in Seq(Kinds)
    <3>1. DOMAIN Issued = 1 .. Len(Issued) /\ Len(Issued) \in Nat
      BY AccessAssumption
    <3> QED BY <3>1 DEF Kinds
  <2>2. req \in [Slot -> ReqType]
    BY IdleTyped
  <2>3. tokens \in Seq(TokenRow)
    <3>1. [user : User, kind : {"user", "admin"}, revoked : BOOLEAN] \subseteq TokenRow
      BY DEF TokenRow
    <3> QED BY <3>1, WiderSeq, AccessAssumption
  <2> QED BY <2>1, <2>2, <2>3, IdleTyped DEF Typed, Located, LoginStep
<1>2. Granted
  <2>1. Len(tokens) \in Nat
    BY <1>1 DEF Typed
  <2> QED BY <2>1, IdleTyped DEF Granted, Looking
<1>3. OneByOne
  BY IdleTyped, AccessAssumption DEF OneByOne, In, LoginStep
<1>4. Probed
  <2>1. DOMAIN First = 1 .. Len(First) /\ Len(First) \in Nat
    BY PlaybackAssumption
  <2> QED BY <2>1 DEF Probed, Row
<1> QED BY <1>1, <1>2, <1>3, <1>4 DEF IInv

-----------------------------------------------------------------------------
(* To only changes where the request stands. *)
LEMMA ToMoves ==
  ASSUME Typed, NEW s \in Slot, NEW at \in At, To(s, at), at \in LoginStep => req[s].at \in LoginStep,
         \/ req[s].at \in Looking /\ at \in Looking
         \/ req[s].at \in Looking /\ Good(req[s].token)
         \/ req[s].at \notin Looking /\ at \notin Looking
  PROVE  SlotMoves(s)
<1> DEFINE r == [req[s] EXCEPT !.at = at]
<1>1. req[s] \in ReqType /\ Located(req[s])
  BY DEF Typed
<1>2. r \in ReqType /\ Located(r) /\ r.at = at /\ r.token = req[s].token /\ r.valid = req[s].valid
  BY <1>1 DEF ReqType, Located
<1>3. req' = [req EXCEPT ![s] = r]
  BY DEF To
<1> QED BY <1>2, <1>3 DEF SlotMoves, GoesOn

(* An answer frees the slot. *)
LEMMA AnswerMoves == ASSUME NEW s \in Slot, Answer(s) PROVE SlotMoves(s)
BY IdleTyped DEF Answer, SlotMoves, GoesOn, Located, LoginStep

(* A new request, of which no more is known than that it has no token. *)
LEMMA BeginMoves ==
  ASSUME NEW s \in Slot, NEW r \in ReqType, Begin(s, r), Located(r), r.token = 0
  PROVE  SlotMoves(s)
BY DEF Begin, SlotMoves, GoesOn

(* The steps of Access. *)
LEMMA AccessMoves == ASSUME Typed, AccessNext PROVE ReqMoves
<1> USE DEF ReqMoves
<1>1. ASSUME NEW s \in Slot, NEW ip \in Ip, NEW u \in User \cup {Nobody}, NEW right \in BOOLEAN, Login(s, ip, u, right)
      PROVE  SlotMoves(s)
  <2>1. [Idle EXCEPT !.at = "find", !.ip = ip, !.user = u, !.right = right] \in ReqType
    BY DEF Idle, ReqType, Kinds, At, LoginStep
  <2>2. [Idle EXCEPT !.at = "find", !.ip = ip, !.user = u, !.right = right].token = 0
    BY DEF Idle
  <2>3. Located(Idle) /\ Located([Idle EXCEPT !.at = "find", !.ip = ip, !.user = u, !.right = right])
    BY DEF Idle, Located, LoginStep
  <2> QED BY <1>1, <2>1, <2>2, <2>3, IdleTyped, BeginMoves DEF Login
<1>2. ASSUME NEW s \in Slot, NEW u \in User \cup {Nobody}, NEW right \in BOOLEAN, AdminLogin(s, u, right)
      PROVE  SlotMoves(s)
  <2>1. [Idle EXCEPT !.at = "find admin", !.user = u, !.right = right] \in ReqType
    BY DEF Idle, ReqType, Kinds, At, AdminStep
  <2>2. [Idle EXCEPT !.at = "find admin", !.user = u, !.right = right].token = 0
    BY DEF Idle
  <2>3. Located([Idle EXCEPT !.at = "find admin", !.user = u, !.right = right])
    BY DEF Idle, Located, LoginStep
  <2> QED BY <1>2, <2>1, <2>2, <2>3, BeginMoves DEF AdminLogin
<1>3. ASSUME NEW s \in Slot, FindUser(s) PROVE SlotMoves(s)
  <2>1. "record" \in At \ Looking /\ "insert" \in At \ Looking /\ req[s].at \in LoginStep \ Looking
    BY <1>3 DEF At, LoginStep, Looking, FindUser
  <2>2. To(s, "record") \/ Answer(s) \/ To(s, "insert")
    BY <1>3 DEF FindUser
  <2> QED BY <2>1, <2>2, ToMoves, AnswerMoves
<1>4. ASSUME NEW s \in Slot, ReadFails(s) PROVE SlotMoves(s)
  <2> DEFINE r == [req[s] EXCEPT !.at = "count", !.count = fails[req[s].ip]]
  <2>1. req[s] \in ReqType /\ fails[req[s].ip] \in Nat
    BY <1>4 DEF Typed, ReqType, Located, ReadFails, LoginStep
  <2>2. r \in ReqType /\ r.at = "count" /\ r.token = req[s].token /\ r.valid = req[s].valid /\ Located(r)
    BY <1>4, <2>1 DEF ReqType, At, LoginStep, Located, ReadFails, Typed
  <2> QED BY <1>4, <2>2 DEF ReadFails, SlotMoves, GoesOn, Looking
<1>5. ASSUME NEW s \in Slot, CountFail(s) \/ ClearFails(s) \/ InsertAdminToken(s) PROVE SlotMoves(s)
  BY <1>5, AnswerMoves DEF CountFail, ClearFails, InsertAdminToken
<1>6. ASSUME NEW s \in Slot, InsertToken(s) PROVE SlotMoves(s)
  <2>1. "clear" \in At \ Looking /\ req[s].at \in LoginStep \ Looking
    BY <1>6 DEF At, LoginStep, Looking, InsertToken
  <2> QED BY <1>6, <2>1, ToMoves DEF InsertToken
<1>7. ASSUME NEW s \in Slot, FindAdmin(s) PROVE SlotMoves(s)
  <2>1. "insert admin" \in At \ (Looking \cup LoginStep) /\ req[s].at \notin Looking
    BY <1>7 DEF At, AdminStep, LoginStep, Looking, FindAdmin
  <2> QED BY <1>7, <2>1, ToMoves, AnswerMoves DEF FindAdmin
<1>8. ASSUME NEW s \in Slot, VerifyHit(s) PROVE SlotMoves(s)
  <2>1. {"run", "admin"} \subseteq At \ LoginStep /\ "admin" \in Looking /\ req[s].at \in Looking
    BY <1>8 DEF At, GuardStep, LoginStep, Looking, VerifyHit
  <2>2. CASE Valid(req[s].token, req[s].kind)
    <3>1. tokens \in Seq(TokenRow) /\ req[s].token \in DOMAIN tokens /\ req[s].kind = tokens[req[s].token].kind
      BY <2>2 DEF Valid, Typed
    <3>2. tokens[req[s].token] \in TokenRow
      BY <3>1
    <3>3. Good(req[s].token)
      BY <2>2, <3>1, <3>2 DEF Good, TokenRow
    <3> QED BY <1>8, <2>1, <2>2, <3>3, ToMoves DEF VerifyHit
  <2>3. CASE ~Valid(req[s].token, req[s].kind)
    BY <1>8, <2>1, <2>3, ToMoves DEF VerifyHit
  <2> QED BY <2>2, <2>3
<1>9. ASSUME NEW s \in Slot, Keep(s) PROVE SlotMoves(s)
  <2>1. "run" \in At \ (Looking \cup LoginStep) /\ req[s].at \notin Looking
    BY <1>9 DEF At, Looking, LoginStep, Keep
  <2> QED BY <1>9, <2>1, ToMoves DEF Keep
<1>10. ASSUME NEW s \in Slot, NEW kind \in {"admin", "user"}, Verify(s, kind) PROVE SlotMoves(s)
  <2>1. req[s] \in ReqType /\ req[s].at \in Looking
    BY <1>10 DEF Verify, Looking, Typed
  <2>2. CASE Valid(req[s].token, kind) /\ req' = [req EXCEPT ![s].at = "keep", ![s].kind = kind]
    <3> DEFINE r == [req[s] EXCEPT !.at = "keep", !.kind = kind]
    <3>1. r \in ReqType /\ r.token = req[s].token /\ r.valid = req[s].valid /\ Located(r)
      BY <2>1 DEF ReqType, At, GuardStep, Kinds, Located, LoginStep
    <3>2. Good(req[s].token)
      BY <2>2 DEF Good
    <3> QED BY <2>1, <2>2, <3>1, <3>2 DEF SlotMoves, GoesOn
  <2>3. CASE NotFound(s, kind)
    <3>1. CASE kind = "admin"
      <4>1. "user" \in At \ LoginStep /\ "user" \in Looking
        BY DEF At, GuardStep, LoginStep, Looking
      <4> QED BY <2>1, <2>3, <3>1, <4>1, ToMoves DEF NotFound
    <3>2. CASE req' = [req EXCEPT ![s].at = "run", ![s].token = 0]
      <4> DEFINE r == [req[s] EXCEPT !.at = "run", !.token = 0]
      <4>1. r \in ReqType /\ r.token = 0 /\ Located(r)
        BY <2>1 DEF ReqType, At, Located, LoginStep
      <4> QED BY <3>2, <4>1 DEF SlotMoves, GoesOn
    <3> QED BY <2>3, <3>1, <3>2, AnswerMoves DEF NotFound
  <2> QED BY <1>10, <2>2, <2>3 DEF Verify
<1>11. ASSUME UNCHANGED req PROVE req' = req
  BY <1>11
<1>12. (\E t \in DOMAIN tokens : Revoke(t) \/ Forget(t)) \/ (\E u \in User : Disable(u)) \/ (\E ip \in Ip : Lapse(ip))
       => UNCHANGED req
  BY DEF Revoke, Forget, Disable, Lapse
<1> QED BY <1>1, <1>2, <1>3, <1>4, <1>5, <1>6, <1>7, <1>8, <1>9, <1>10, <1>12 DEF AccessNext

-----------------------------------------------------------------------------
(* The guard hands a request a token, and looks whether it is good. *)
LEMMA AskMoves ==
  ASSUME Typed, NEW s \in Slot, NEW t \in Carried, NEW route \in Routes, Ask(s, t, route)
  PROVE  SlotMoves(s)
<1> DEFINE cached == IF t \in DOMAIN seen THEN seen[t] ELSE "none"
           r == [Idle EXCEPT !.at = IF cached = "none" THEN "admin" ELSE "hit", !.kind = cached,
                             !.token = t, !.route = route, !.valid = Valid(t, "admin") \/ Valid(t, "user")]
<1>1. cached \in Kinds
  <2>1. seen \in Seq(Kinds)
    BY DEF Typed
  <2>2. t \in DOMAIN seen => seen[t] \in Kinds
    BY <2>1
  <2> QED BY <2>2 DEF Kinds
<1>2. t \in Nat /\ t <= Len(tokens)
  BY DEF Carried, Typed
<1>3. Good(t) \in BOOLEAN /\ Good(t) = (Valid(t, "admin") \/ Valid(t, "user"))
  BY DEF Good, Valid
<1> HIDE DEF cached
<1>4. r \in ReqType /\ Located(r) /\ r.at \in Looking /\ r.token = t /\ r.valid = Good(t)
  BY <1>1, <1>2, <1>3 DEF Idle, ReqType, Located, Looking, LoginStep, At, GuardStep
<1>5. req' = [req EXCEPT ![s] = r]
  BY DEF Ask, Begin, cached
<1> QED BY <1>2, <1>4, <1>5 DEF SlotMoves, GoesOn

(* A handler delivers: the request is answered with the token it had. *)
LEMMA DeliverMoves ==
  ASSUME Typed, NEW s \in Slot, NEW k, NEW range, NEW r \in ReqType, Deliver(s, k, range, r),
         (r = req[s] /\ r.at \notin Looking) \/ r.token = 0
  PROVE  SlotMoves(s)
<1>1. CASE Answer(s)
  BY <1>1, AnswerMoves
<1>2. CASE req' = [req EXCEPT ![s] = [r EXCEPT !.at = "answered"]]
  <2> DEFINE q == [r EXCEPT !.at = "answered"]
  <2>1. q \in ReqType /\ Located(q) /\ q.at = "answered" /\ q.token = r.token /\ q.valid = r.valid
    BY DEF ReqType, Located, LoginStep, At
  <2> QED BY <1>2, <2>1 DEF SlotMoves, GoesOn, Looking
<1> QED BY <1>1, <1>2 DEF Deliver, Reply

(* The handlers. *)
LEMMA HandlerMoves ==
  ASSUME Typed, NEW s \in Slot,
         \/ \E i \in Item : ListMediaSources(s, i)
         \/ SpawnStrmProbe(s) \/ MediaSourceJson(s)
         \/ \E k \in 1 .. MaxMedia, range \in Ranges : PlayVideo(s, k, range) \/ TicketPlay(s, k, range)
         \/ \E k \in 1 .. MaxMedia : FindMedia(s, k)
         \/ PlaySubtitle(s) \/ Leave(s) \/ Drop(s)
  PROVE  req' = req \/ SlotMoves(s)
<1>1. {"spawn", "list", "subtitle", "answered"} \subseteq At \ (Looking \cup LoginStep)
  BY DEF At, Looking, LoginStep
<1>2. ASSUME NEW at, NEW route, Handles(s, at, route), at \in {"run", "spawn", "list", "subtitle"}
      PROVE  req[s].at \notin Looking
  BY <1>2 DEF Handles, Looking
<1>3. ASSUME NEW i \in Item, ListMediaSources(s, i) PROVE SlotMoves(s)
  <2>1. Answer(s) \/ To(s, "spawn")
    BY <1>3 DEF ListMediaSources, Reply
  <2> QED BY <1>1, <1>2, <1>3, <2>1, AnswerMoves, ToMoves DEF ListMediaSources
<1>4. ASSUME SpawnStrmProbe(s) PROVE SlotMoves(s)
  BY <1>1, <1>2, <1>4, ToMoves DEF SpawnStrmProbe
<1>5. ASSUME MediaSourceJson(s) PROVE req' = req \/ SlotMoves(s)
  BY <1>5, AnswerMoves DEF MediaSourceJson, Reply
<1>6. ASSUME NEW k, NEW range, PlayVideo(s, k, range) PROVE SlotMoves(s)
  <2>1. req[s] \in ReqType
    BY DEF Typed
  <2> QED BY <1>2, <1>6, <2>1, DeliverMoves DEF PlayVideo
<1>7. ASSUME NEW k, NEW range, TicketPlay(s, k, range) PROVE SlotMoves(s)
  <2>1. [Idle EXCEPT !.route = "Video"] \in ReqType /\ [Idle EXCEPT !.route = "Video"].token = 0
    BY DEF Idle, ReqType, At, Kinds, Routes
  <2> QED BY <1>7, <2>1, DeliverMoves DEF TicketPlay
<1>8. ASSUME NEW k, FindMedia(s, k) PROVE SlotMoves(s)
  <2>1. Answer(s) \/ To(s, "subtitle")
    BY <1>8 DEF FindMedia, Reply
  <2> QED BY <1>1, <1>2, <1>8, <2>1, AnswerMoves, ToMoves DEF FindMedia
<1>9. ASSUME PlaySubtitle(s) PROVE SlotMoves(s)
  <2>1. Answer(s) \/ To(s, "answered")
    BY <1>9 DEF PlaySubtitle, Reply
  <2> QED BY <1>1, <1>2, <1>9, <2>1, AnswerMoves, ToMoves DEF PlaySubtitle
<1>10. ASSUME Leave(s) \/ Drop(s) PROVE SlotMoves(s)
  BY <1>10, AnswerMoves DEF Leave, Drop, Reply, GiveUp
<1> QED BY <1>3, <1>4, <1>5, <1>6, <1>7, <1>8, <1>9, <1>10

(* Every step. *)
LEMMA RequestsMove == ASSUME Typed, [Next]_vars PROVE ReqMoves
<1>1. CASE AccessNext /\ UNCHANGED <<play, held>>
  BY <1>1, AccessMoves
<1>2. ASSUME NEW s \in Slot, NEW t \in Carried, NEW route \in Routes, Ask(s, t, route)
      PROVE  ReqMoves
  BY <1>2, AskMoves DEF ReqMoves
<1>3. CASE \E s \in Slot :
             \/ \E i \in Item : ListMediaSources(s, i)
             \/ SpawnStrmProbe(s) \/ MediaSourceJson(s)
             \/ \E k \in 1 .. MaxMedia, range \in Ranges : PlayVideo(s, k, range) \/ TicketPlay(s, k, range)
             \/ \E k \in 1 .. MaxMedia : FindMedia(s, k)
             \/ PlaySubtitle(s) \/ Leave(s) \/ Drop(s)
  BY <1>3, HandlerMoves DEF ReqMoves
<1>4. CASE Stop
  BY <1>4 DEF Stop, Restart, ReqMoves
<1>5. CASE \/ \E k \in 1 .. MaxMedia : ProbeMediaSource(k) \/ ProbeEnds(k)
           \/ \E i \in Item : DropSubtitles(i)
           \/ \E k \in 1 .. MaxMedia : DetectDeletion(k)
           \/ DropSources \/ ScanFails
           \/ \E f \in DOMAIN Film : InsertSource(f)
           \/ \E k \in 1 .. MaxMedia, f \in SubFile : AttachSubtitle(k, f)
  BY <1>5 DEF ProbeMediaSource, ProbeEnds, DropSubtitles, DetectDeletion, DropSources, InsertSource, ScanFails, AttachSubtitle, ReqMoves
<1>6. CASE UNCHANGED vars
  BY <1>6 DEF vars, ReqMoves
<1> QED BY <1>1, <1>2, <1>3, <1>4, <1>5, <1>6 DEF Next

Others == UNCHANGED <<tokens, disabled, seen, fails, misses, mixed>>
(* The tables and counts of Access are written by its own steps only. *)
LEMMA OnlyAccess ==
  ASSUME [Next]_vars PROVE AccessNext \/ Stop \/ Others
<1> USE DEF Others, access
<1>1. ASSUME NEW s \in Slot, NEW t \in Carried, NEW route \in Routes, Ask(s, t, route)
      PROVE  Others
  BY <1>1 DEF Ask
<1>2. ASSUME NEW s \in Slot,
             \/ \E i \in Item : ListMediaSources(s, i)
             \/ SpawnStrmProbe(s) \/ MediaSourceJson(s)
             \/ \E k \in 1 .. MaxMedia : FindMedia(s, k)
             \/ PlaySubtitle(s) \/ Leave(s) \/ Drop(s)
      PROVE  Others
  BY <1>2 DEF ListMediaSources, SpawnStrmProbe, MediaSourceJson, FindMedia, PlaySubtitle, Leave, Drop, GiveUp
<1>3. ASSUME NEW s \in Slot, NEW k, NEW range, PlayVideo(s, k, range) \/ TicketPlay(s, k, range)
      PROVE  Others
  BY <1>3 DEF PlayVideo, TicketPlay
<1>4. CASE \/ \E k \in 1 .. MaxMedia : ProbeMediaSource(k) \/ ProbeEnds(k)
           \/ \E i \in Item : DropSubtitles(i)
           \/ \E k \in 1 .. MaxMedia : DetectDeletion(k)
           \/ DropSources \/ ScanFails
           \/ \E f \in DOMAIN Film : InsertSource(f)
           \/ \E k \in 1 .. MaxMedia, f \in SubFile : AttachSubtitle(k, f)
  BY <1>4 DEF ProbeMediaSource, ProbeEnds, DropSubtitles, DetectDeletion, DropSources, InsertSource, ScanFails, AttachSubtitle
<1>5. CASE UNCHANGED vars
  BY <1>5 DEF vars
<1> QED BY <1>1, <1>2, <1>3, <1>4, <1>5 DEF Next

-----------------------------------------------------------------------------
(***************************************************************************)
(* The invariant is kept.                                                  *)
(***************************************************************************)

(* A token is appended, none is changed but to be revoked. *)
LEMMA NewTokenTyped ==
  ASSUME Typed, NEW u \in User \cup {Nobody}, NEW kind \in {"user", "admin"}, NewToken(u, kind)
  PROVE  /\ tokens' \in Seq(TokenRow) /\ seen' \in Seq(Kinds) /\ Len(tokens') = Len(tokens) + 1
         /\ \A t \in 1 .. Len(tokens) : tokens'[t] = tokens[t]
<1>1. [user |-> u, kind |-> kind, revoked |-> FALSE] \in TokenRow /\ "none" \in Kinds
  BY DEF TokenRow, Kinds
<1> QED BY <1>1 DEF Typed, NewToken

(* What the steps of Access do to its tables: they stay typed, and no token
   becomes better. *)
LEMMA AccessTables ==
  ASSUME Typed, AccessNext
  PROVE  /\ tokens' \in Seq(TokenRow) /\ seen' \in Seq(Kinds)
         /\ fails' \in [Ip -> Nat] /\ misses' \in [Ip -> Nat]
         /\ TokensMove
<1> DEFINE G == /\ tokens' \in Seq(TokenRow) /\ seen' \in Seq(Kinds)
                /\ fails' \in [Ip -> Nat] /\ misses' \in [Ip -> Nat]
                /\ TokensMove
<1>1. ASSUME UNCHANGED <<tokens, disabled>> PROVE TokensMove
  BY <1>1 DEF TokensMove, Typed, Good, Valid
<1>2. ASSUME UNCHANGED <<tokens, disabled, seen, fails, misses>> PROVE G
  BY <1>1, <1>2 DEF Typed
<1>3. ASSUME NEW u \in User \cup {Nobody}, NEW kind \in {"user", "admin"}, NewToken(u, kind), UNCHANGED <<disabled, fails, misses>>
      PROVE  G
  <2>1. /\ tokens' \in Seq(TokenRow) /\ seen' \in Seq(Kinds) /\ Len(tokens') = Len(tokens) + 1
        /\ \A t \in 1 .. Len(tokens) : tokens'[t] = tokens[t]
    BY <1>3, NewTokenTyped
  <2>2. TokensMove
    BY <1>3, <2>1 DEF TokensMove, Typed, Good, Valid
  <2> QED BY <1>3, <2>1, <2>2 DEF Typed
<1>5. ASSUME NEW s \in Slot, NEW ip \in Ip, NEW u \in User \cup {Nobody}, NEW right \in BOOLEAN, Login(s, ip, u, right)
      PROVE  G
  BY <1>2, <1>5 DEF Login
<1>6. ASSUME NEW s \in Slot, NEW u \in User \cup {Nobody}, NEW right \in BOOLEAN, AdminLogin(s, u, right)
      PROVE  G
  BY <1>2, <1>6 DEF AdminLogin
<1>7. ASSUME NEW s \in Slot, FindUser(s) \/ ReadFails(s) \/ FindAdmin(s) \/ VerifyHit(s) \/ \E kind \in {"admin", "user"} : Verify(s, kind)
      PROVE  G
  BY <1>2, <1>7 DEF FindUser, ReadFails, FindAdmin, VerifyHit, Verify, access
<1>8. ASSUME NEW s \in Slot, CountFail(s) PROVE G
  <2>1. req[s].count \in Nat /\ req[s].ip \in Ip
    BY <1>8 DEF Typed, ReqType, Located, CountFail, LoginStep
  <2>2. /\ fails' = [fails EXCEPT ![req[s].ip] = req[s].count + 1]
        /\ misses' = [misses EXCEPT ![req[s].ip] = misses[req[s].ip] + 1]
        /\ UNCHANGED <<disabled, tokens, seen>>
    BY <1>8 DEF CountFail
  <2>3. fails \in [Ip -> Nat] /\ misses \in [Ip -> Nat] /\ tokens \in Seq(TokenRow) /\ seen \in Seq(Kinds)
    BY DEF Typed
  <2>4. fails' \in [Ip -> Nat] /\ misses' \in [Ip -> Nat]
    BY ONLY <2>1, <2>2, <2>3
  <2>5. TokensMove
    BY <1>1, <2>2
  <2> QED BY <2>2, <2>3, <2>4, <2>5
<1>9. ASSUME NEW s \in Slot, ClearFails(s) PROVE G
  BY <1>1, <1>9 DEF ClearFails, Typed
<1>10. ASSUME NEW s \in Slot, InsertToken(s) \/ InsertAdminToken(s) PROVE G
  <2>1. req[s].user \in User \cup {Nobody}
    BY DEF Typed, ReqType
  <2> QED BY <1>3, <1>10, <2>1 DEF InsertToken, InsertAdminToken
<1>11. ASSUME NEW s \in Slot, Keep(s) PROVE G
  <2>1. req[s].kind \in Kinds
    BY DEF Typed, ReqType
  <2>2. seen \in Seq(Kinds) /\ seen' = [seen EXCEPT ![req[s].token] = req[s].kind]
    BY <1>11 DEF Keep, Typed
  <2>3. seen' \in Seq(Kinds)
    BY <2>1, <2>2, ExceptKeepsSeq
  <2> QED BY <1>1, <1>11, <2>3 DEF Keep, Typed
<1>12. ASSUME NEW t \in DOMAIN tokens, Revoke(t) PROVE G
  <2>1. tokens \in Seq(TokenRow) /\ tokens' = [tokens EXCEPT ![t].revoked = TRUE] /\ disabled' = disabled
    BY <1>12 DEF Typed, Revoke
  <2>2. tokens[t] \in TokenRow /\ [tokens[t] EXCEPT !.revoked = TRUE] \in TokenRow
    <3>1. tokens[t] \in TokenRow
      BY <1>12, <2>1
    <3> QED BY <3>1 DEF TokenRow
  <2>3. tokens' \in Seq(TokenRow) /\ Len(tokens') = Len(tokens)
    BY <2>1, <2>2
  <2>4. \A k \in DOMAIN tokens : /\ tokens'[k].user = tokens[k].user /\ tokens'[k].kind = tokens[k].kind
                                 /\ ~tokens'[k].revoked => ~tokens[k].revoked
    BY <2>1, <2>2 DEF TokenRow
  <2>5. TokensMove
    BY <2>1, <2>3, <2>4 DEF TokensMove, Good, Valid
  <2> QED BY <1>12, <2>3, <2>5 DEF Revoke, Typed
<1>13. ASSUME NEW t, Forget(t) PROVE G
  BY <1>1, <1>13 DEF Forget, Typed, Kinds
<1>14. ASSUME NEW u \in User, Disable(u) PROVE G
  BY <1>14 DEF Disable, Typed, TokensMove, Good, Valid
<1>15. ASSUME NEW ip \in Ip, Lapse(ip) PROVE G
  BY <1>1, <1>15 DEF Lapse, Typed
<1> QED BY <1>5, <1>6, <1>7, <1>8, <1>9, <1>10, <1>11, <1>12, <1>13, <1>14, <1>15 DEF AccessNext

(* So do all steps. *)
LEMMA Tables ==
  ASSUME Typed, [Next]_vars
  PROVE  /\ tokens' \in Seq(TokenRow) /\ seen' \in Seq(Kinds)
         /\ fails' \in [Ip -> Nat] /\ misses' \in [Ip -> Nat]
         /\ TokensMove
<1>1. CASE AccessNext
  BY <1>1, AccessTables
<1>2. CASE Stop
  <2>1. UNCHANGED <<tokens, disabled>> /\ seen' = [t \in DOMAIN tokens |-> "none"]
        /\ fails' = [ip \in Ip |-> 0] /\ misses' = fails'
    BY <1>2 DEF Stop, Restart
  <2>2. tokens \in Seq(TokenRow)
    BY DEF Typed
  <2>3. Len(tokens) \in Nat /\ DOMAIN tokens = 1 .. Len(tokens)
    BY <2>2
  <2> QED BY <2>1, <2>2, <2>3 DEF Kinds, TokensMove, Good, Valid
<1>3. CASE Others
  BY <1>3 DEF Others, Typed, TokensMove, Good, Valid
<1> QED BY <1>1, <1>2, <1>3, OnlyAccess

(* Types are kept. *)
LEMMA TypedKept == ASSUME Typed, [Next]_vars PROVE Typed'
<1>1. ReqMoves
  BY RequestsMove
<1>2. req' \in [Slot -> ReqType] /\ \A s \in Slot : Located(req'[s])
  <2>1. CASE req' = req
    BY <2>1 DEF Typed
  <2>2. CASE req' = [s \in Slot |-> Idle]
    BY <2>2, IdleTyped DEF Located, LoginStep
  <2>3. ASSUME NEW s \in Slot, SlotMoves(s) PROVE req' \in [Slot -> ReqType] /\ \A q \in Slot : Located(req'[q])
    BY <2>3 DEF SlotMoves, Typed
  <2> QED BY <1>1, <2>1, <2>2, <2>3 DEF ReqMoves
<1> QED BY <1>2, Tables DEF Typed, Located

(* No request is handled for a token that was bad when it came. *)
LEMMA GrantedKept == ASSUME Typed, Granted, [Next]_vars PROVE Granted'
<1>1. TokensMove /\ Len(tokens) \in Nat /\ Len(tokens') \in Nat
  <2>1. tokens' \in Seq(TokenRow) /\ TokensMove
    BY Tables
  <2> QED BY <2>1 DEF Typed
<1>2. ~Good(0)
  <2>1. tokens \in Seq(TokenRow)
    BY DEF Typed
  <2> QED BY <2>1 DEF Good, Valid
<1>3. Good(0)' => Good(0)
  BY <1>1 DEF TokensMove
<1> DEFINE Fine(r) == /\ r.token <= Len(tokens')
                      /\ \A t \in Nat : r.at \in Looking /\ t = r.token /\ Good(t)' => r.valid
                      /\ r.at \notin Looking /\ r.token # 0 => r.valid
<1>4. ASSUME NEW s \in Slot PROVE req[s].token \in 0 .. Len(tokens)
  <2>1. req[s] \in ReqType
    BY DEF Typed
  <2>2. req[s].token <= Len(tokens)
    BY DEF Granted
  <2>3. req[s].token \in Nat
    BY <2>1 DEF ReqType
  <2> QED BY <1>1, <2>2, <2>3
<1>5. ASSUME NEW s \in Slot PROVE Fine(req[s])
  BY <1>1, <1>4 DEF Granted, TokensMove
<1>6. ASSUME NEW s \in Slot, NEW r \in ReqType, GoesOn(req[s], r) PROVE Fine(r)
  <2>1. r.token \in Nat /\ req[s].token \in 0 .. Len(tokens)
    BY <1>4 DEF ReqType
  <2>2. CASE r.token = 0
    BY <1>1, <1>2, <1>3, <2>2
  <2>3. CASE r.at \in Looking /\ r.token <= Len(tokens) /\ r.valid = Good(r.token)
    BY <1>1, <2>1, <2>3 DEF TokensMove
  <2>4. CASE r.token = req[s].token /\ r.valid = req[s].valid
             /\ \/ req[s].at \in Looking /\ r.at \in Looking
                \/ req[s].at \in Looking /\ Good(req[s].token)
                \/ req[s].at \notin Looking /\ r.at \notin Looking
    BY <1>1, <2>1, <2>4 DEF Granted, TokensMove
  <2> QED BY <1>6, <2>2, <2>3, <2>4 DEF GoesOn
<1>7. Fine(Idle)
  BY <1>1, IdleTyped DEF Looking
<1>8. \A s \in Slot : Fine(req'[s])
  <2>1. CASE req' = req
    BY <1>5, <2>1
  <2>2. CASE req' = [s \in Slot |-> Idle]
    <3>1. ASSUME NEW s \in Slot PROVE req'[s] = Idle
      BY <2>2
    <3> QED BY <1>7, <3>1
  <2>3. ASSUME NEW s \in Slot, SlotMoves(s), NEW q \in Slot PROVE Fine(req'[q])
    <3>1. PICK r \in ReqType : req' = [req EXCEPT ![s] = r] /\ GoesOn(req[s], r)
      BY <2>3 DEF SlotMoves
    <3>2. Fine(r)
      BY <1>6, <3>1
    <3>3. req'[q] = IF q = s THEN r ELSE req[q]
      BY <3>1 DEF Typed
    <3> QED BY <1>5, <3>2, <3>3
  <2> QED BY <2>1, <2>2, <2>3, RequestsMove DEF ReqMoves
<1>9. \A s \in Slot : req'[s].token \in Nat
  BY TypedKept DEF Typed, ReqType
<1>10. ASSUME NEW s \in Slot, req'[s].at \in Looking, Good(req[s].token)' PROVE req'[s].valid
  BY <1>8, <1>9, <1>10 DEF Good, Valid
<1> QED BY <1>8, <1>10 DEF Granted

-----------------------------------------------------------------------------
(* Logins of an address one by one.  First, whatever leaves the counts alone
   and does not bring a request into a login. *)
LEMMA OtherMoves ==
  ASSUME Typed, OneByOne, UNCHANGED <<fails, misses, mixed>>,
         \A s \in Slot, ip \in Ip : In(s, ip)' => \/ In(s, ip) /\ req'[s].at # "count"
                                                  \/ req'[s] = req[s]
  PROVE  OneByOne'
<1> SUFFICES ASSUME NEW ip \in Ip \ mixed
             PROVE  /\ fails[ip] = misses[ip] /\ misses[ip] <= LoginLimit
                    /\ \A s \in Slot : In(s, ip)' => /\ fails[ip] < LoginLimit
                                                     /\ req'[s].at = "count" => req'[s].count = fails[ip]
                    /\ \A s, r \in Slot : In(s, ip)' /\ In(r, ip)' => s = r
  BY DEF OneByOne
<1>1. \A s \in Slot : In(s, ip)' => In(s, ip)
  BY DEF In
<1> QED BY <1>1 DEF OneByOne, In

(* One slot is rewritten, and the request in it is not logging in afterwards,
   or goes on with its login and does not count. *)
LEMMA SlotLeaves ==
  ASSUME Typed, OneByOne, UNCHANGED <<fails, misses, mixed>>, NEW s \in Slot, NEW r,
         req' = [req EXCEPT ![s] = r],
         \/ r.at \notin LoginStep
         \/ r.at # "count" /\ req[s].at \in LoginStep /\ r.ip = req[s].ip
  PROVE  OneByOne'
<1>1. ASSUME NEW q \in Slot PROVE req'[q] = IF q = s THEN r ELSE req[q]
  BY DEF Typed
<1>2. ASSUME NEW q \in Slot, NEW ip \in Ip, In(q, ip)'
      PROVE  (In(q, ip) /\ req'[q].at # "count") \/ req'[q] = req[q]
  BY <1>1, <1>2 DEF In
<1> QED BY <1>2, OtherMoves

(* A login that goes on with another of its steps than counting. *)
LEMMA SlotStands ==
  ASSUME Typed, OneByOne, UNCHANGED <<fails, misses, mixed>>, NEW s \in Slot, NEW at, To(s, at),
         at # "count" /\ req[s].at \in LoginStep
  PROVE  OneByOne'
<1>1. req[s] \in ReqType
  BY DEF Typed
<1>2. [req[s] EXCEPT !.at = at].at = at /\ [req[s] EXCEPT !.at = at].ip = req[s].ip
  BY <1>1 DEF ReqType
<1>3. req' = [req EXCEPT ![s] = [req[s] EXCEPT !.at = at]]
  BY DEF To
<1> QED BY <1>2, <1>3, SlotLeaves

(* A request that goes on with a step that is none of a login. *)
LEMMA SlotPasses ==
  ASSUME Typed, OneByOne, UNCHANGED <<fails, misses, mixed>>, NEW s \in Slot, NEW at, To(s, at), at \notin LoginStep
  PROVE  OneByOne'
<1>1. [req[s] EXCEPT !.at = at].at = at
  BY DEF Typed, ReqType
<1>2. req' = [req EXCEPT ![s] = [req[s] EXCEPT !.at = at]]
  BY DEF To
<1> QED BY <1>1, <1>2, SlotLeaves

(* A request that is answered. *)
LEMMA SlotEnds ==
  ASSUME Typed, OneByOne, UNCHANGED <<fails, misses, mixed>>, NEW s \in Slot, Answer(s)
  PROVE  OneByOne'
BY SlotLeaves, IdleTyped DEF Answer, LoginStep

(* A step that touches no request and no count. *)
LEMMA Unmoved ==
  ASSUME Typed, OneByOne, UNCHANGED <<fails, misses, mixed, req>> PROVE OneByOne'
<1>1. \A s \in Slot : req'[s] = req[s]
  OBVIOUS
<1> QED BY <1>1, OtherMoves

(* The steps of a login. *)
LEMMA LoginKeeps ==
  ASSUME Typed, OneByOne, NEW s \in Slot, NEW ip \in Ip, NEW u \in User \cup {Nobody}, NEW right \in BOOLEAN,
         Login(s, ip, u, right)
  PROVE  OneByOne'
<1> DEFINE r == IF Allowed(ip) THEN [Idle EXCEPT !.at = "find", !.ip = ip, !.user = u, !.right = right] ELSE Idle
<1>1. /\ req' = [req EXCEPT ![s] = r] /\ req[s].at = "idle"
      /\ mixed' = (IF LogsIn(ip) THEN mixed \cup {ip} ELSE mixed) /\ UNCHANGED <<fails, misses>>
  BY DEF Login, Begin
<1>2. r.at # "count" /\ (r.at \in LoginStep => r.ip = ip /\ fails[ip] < LoginLimit)
  BY DEF Idle, LoginStep, Allowed
<1>3. ASSUME NEW q \in Slot PROVE req'[q] = IF q = s THEN r ELSE req[q]
  BY <1>1 DEF Typed
<1> HIDE DEF r
<1>4. CASE r.at \in LoginStep
  <2> SUFFICES ASSUME NEW jp \in Ip \ mixed'
               PROVE  /\ fails[jp] = misses[jp] /\ misses[jp] <= LoginLimit
                      /\ \A q \in Slot : In(q, jp)' => /\ fails[jp] < LoginLimit
                                                       /\ req'[q].at = "count" => req'[q].count = fails[jp]
                      /\ \A q, t \in Slot : In(q, jp)' /\ In(t, jp)' => q = t
    BY <1>1 DEF OneByOne
  <2>1. jp \notin mixed
    BY <1>1
  <2>2. CASE jp = ip
    <3>1. ~LogsIn(ip)
      BY <1>1, <2>2
    <3>2. \A q \in Slot : ~In(q, ip)
      BY <3>1 DEF LogsIn, In
    <3>3. \A q \in Slot : In(q, ip)' => q = s
      BY <1>3, <3>2 DEF In
    <3> QED BY <1>2, <1>3, <1>4, <2>1, <2>2, <3>3 DEF OneByOne
  <2>3. CASE jp # ip
    <3>1. \A q \in Slot : In(q, jp)' => In(q, jp) /\ req'[q] = req[q]
      BY <1>2, <1>3, <1>4, <2>3 DEF In
    <3> QED BY <2>1, <3>1 DEF OneByOne, In
  <2> QED BY <2>2, <2>3
<1>5. CASE r.at \notin LoginStep
  <2> SUFFICES ASSUME NEW jp \in Ip \ mixed'
               PROVE  /\ fails[jp] = misses[jp] /\ misses[jp] <= LoginLimit
                      /\ \A q \in Slot : In(q, jp)' => /\ fails[jp] < LoginLimit
                                                       /\ req'[q].at = "count" => req'[q].count = fails[jp]
                      /\ \A q, t \in Slot : In(q, jp)' /\ In(t, jp)' => q = t
    BY <1>1 DEF OneByOne
  <2>1. jp \notin mixed
    BY <1>1
  <2>2. \A q \in Slot : In(q, jp)' => In(q, jp) /\ req'[q] = req[q]
    BY <1>3, <1>5 DEF In
  <2> QED BY <2>1, <2>2 DEF OneByOne, In
<1> QED BY <1>4, <1>5

(* An entry is set to the count that was read, plus one, or removed. *)
LEMMA CountKeeps ==
  ASSUME Typed, OneByOne, NEW s \in Slot, CountFail(s) \/ ClearFails(s)
  PROVE  OneByOne'
<1>1. req[s] \in ReqType /\ req[s].ip \in Ip /\ In(s, req[s].ip)
  BY DEF Typed, Located, CountFail, ClearFails, In, LoginStep
<1>2. ASSUME NEW q \in Slot PROVE req'[q] = IF q = s THEN Idle ELSE req[q]
  BY DEF Typed, CountFail, ClearFails, Answer
<1>3. mixed' = mixed
  BY DEF CountFail, ClearFails
<1> SUFFICES ASSUME NEW jp \in Ip \ mixed
             PROVE  /\ fails'[jp] = misses'[jp] /\ misses'[jp] <= LoginLimit
                    /\ \A q \in Slot : In(q, jp)' => /\ fails'[jp] < LoginLimit
                                                     /\ req'[q].at = "count" => req'[q].count = fails'[jp]
                    /\ \A q, t \in Slot : In(q, jp)' /\ In(t, jp)' => q = t
  BY <1>3 DEF OneByOne
<1>4. \A q \in Slot : In(q, jp)' => q # s /\ In(q, jp) /\ req'[q] = req[q]
  BY <1>2, IdleTyped DEF In, LoginStep
<1>5. CASE jp = req[s].ip
  <2>1. \A q \in Slot : ~In(q, jp)'
    BY <1>1, <1>4, <1>5 DEF OneByOne
  <2>2. CASE CountFail(s)
    <3>1. fails[jp] < LoginLimit /\ req[s].count = fails[jp] /\ fails[jp] = misses[jp] /\ misses[jp] \in Nat
      BY <1>1, <1>5, <2>2 DEF OneByOne, CountFail, Typed
    <3>2. fails'[jp] = fails[jp] + 1 /\ misses'[jp] = misses[jp] + 1
      BY <1>5, <2>2, <3>1 DEF CountFail, Typed
    <3> QED BY <2>1, <3>1, <3>2, AccessAssumption
  <2>3. CASE ClearFails(s)
    <3>1. fails'[jp] = 0 /\ misses'[jp] = 0
      BY <1>5, <2>3 DEF ClearFails, Typed
    <3> QED BY <2>1, <3>1, AccessAssumption
  <2> QED BY <2>2, <2>3
<1>6. CASE jp # req[s].ip
  <2>1. fails'[jp] = fails[jp] /\ misses'[jp] = misses[jp]
    BY <1>6 DEF CountFail, ClearFails, Typed
  <2> QED BY <1>4, <2>1 DEF OneByOne, In
<1> QED BY <1>5, <1>6

(* A failed login reads the count it will raise (login_fail_record: get). *)
LEMMA ReadKeeps == ASSUME Typed, OneByOne, NEW s \in Slot, ReadFails(s) PROVE OneByOne'
<1> DEFINE r == [req[s] EXCEPT !.at = "count", !.count = fails[req[s].ip]]
<1>1. req[s] \in ReqType /\ req[s].at \in LoginStep /\ UNCHANGED <<fails, misses, mixed>>
  BY DEF Typed, ReadFails, LoginStep, access
<1>2. r.ip = req[s].ip /\ r.count = fails[r.ip] /\ r.at = "count"
  BY <1>1 DEF ReqType
<1>3. ASSUME NEW q \in Slot PROVE req'[q] = IF q = s THEN r ELSE req[q]
  BY DEF Typed, ReadFails
<1> HIDE DEF r
<1> SUFFICES ASSUME NEW jp \in Ip \ mixed
             PROVE  /\ fails[jp] = misses[jp] /\ misses[jp] <= LoginLimit
                    /\ \A q \in Slot : In(q, jp)' => /\ fails[jp] < LoginLimit
                                                     /\ req'[q].at = "count" => req'[q].count = fails[jp]
                    /\ \A q, t \in Slot : In(q, jp)' /\ In(t, jp)' => q = t
  BY <1>1 DEF OneByOne
<1>4. \A q \in Slot : In(q, jp)' => In(q, jp) /\ (req'[q] = req[q] \/ req'[q].count = fails[jp])
  BY <1>1, <1>2, <1>3 DEF In
<1> QED BY <1>4 DEF OneByOne, In

(* The entry of an address lapses: a login under way then makes it mixed. *)
LEMMA LapseKeeps == ASSUME Typed, OneByOne, NEW ip \in Ip, Lapse(ip) PROVE OneByOne'
<1>1. /\ fails' = [fails EXCEPT ![ip] = 0] /\ misses' = [misses EXCEPT ![ip] = 0] /\ req' = req
      /\ mixed' = IF LogsIn(ip) THEN mixed \cup {ip} ELSE mixed \ {ip}
  BY DEF Lapse
<1> SUFFICES ASSUME NEW jp \in Ip \ mixed'
             PROVE  /\ fails'[jp] = misses'[jp] /\ misses'[jp] <= LoginLimit
                    /\ \A q \in Slot : In(q, jp) => /\ fails'[jp] < LoginLimit
                                                    /\ req[q].at = "count" => req[q].count = fails'[jp]
                    /\ \A q, t \in Slot : In(q, jp) /\ In(t, jp) => q = t
  BY <1>1 DEF OneByOne, In
<1>2. CASE jp = ip
  <2>1. \A q \in Slot : ~In(q, jp)
    BY <1>1, <1>2 DEF LogsIn, In
  <2>2. fails'[jp] = 0 /\ misses'[jp] = 0
    BY <1>1, <1>2 DEF Typed
  <2> QED BY <2>1, <2>2, AccessAssumption
<1>3. CASE jp # ip
  <2>1. fails'[jp] = fails[jp] /\ misses'[jp] = misses[jp] /\ jp \notin mixed
    BY <1>1, <1>3 DEF Typed
  <2> QED BY <2>1 DEF OneByOne
<1> QED BY <1>2, <1>3

(* Logins stay one by one through every step of Access. *)
LEMMA AccessCounts == ASSUME Typed, OneByOne, AccessNext PROVE OneByOne'
<1>1. ASSUME NEW s \in Slot, NEW u \in User \cup {Nobody}, NEW right \in BOOLEAN, AdminLogin(s, u, right)
      PROVE  OneByOne'
  <2>1. [Idle EXCEPT !.at = "find admin", !.user = u, !.right = right].at \notin LoginStep
    BY DEF Idle, LoginStep
  <2> QED BY <1>1, <2>1, SlotLeaves DEF AdminLogin, Begin
<1>2. "count" \notin {"record", "insert", "clear"}
      /\ \A at \in {"insert admin", "run", "admin", "user"} : at \notin LoginStep
  BY DEF At, LoginStep, AdminStep, GuardStep
<1>3. ASSUME NEW s \in Slot, FindUser(s) PROVE OneByOne'
  <2>1. To(s, "record") \/ Answer(s) \/ To(s, "insert")
    BY <1>3 DEF FindUser
  <2>2. req[s].at \in LoginStep /\ UNCHANGED <<fails, misses, mixed>>
    BY <1>3 DEF FindUser, LoginStep, access
  <2> QED BY <1>2, <2>1, <2>2, SlotStands, SlotEnds
<1>4. ASSUME NEW s \in Slot, InsertToken(s) PROVE OneByOne'
  <2>1. req[s].at \in LoginStep /\ To(s, "clear") /\ UNCHANGED <<fails, misses, mixed>>
    BY <1>4 DEF InsertToken, LoginStep
  <2> QED BY <1>2, <2>1, SlotStands
<1>5. ASSUME NEW s \in Slot, FindAdmin(s) PROVE OneByOne'
  <2>1. (To(s, "insert admin") \/ Answer(s)) /\ UNCHANGED <<fails, misses, mixed>>
    BY <1>5 DEF FindAdmin, access
  <2> QED BY <1>2, <2>1, SlotPasses, SlotEnds
<1>6. ASSUME NEW s \in Slot, InsertAdminToken(s) PROVE OneByOne'
  BY <1>6, SlotEnds DEF InsertAdminToken
<1>7. ASSUME NEW s \in Slot, VerifyHit(s) PROVE OneByOne'
  <2>1. (To(s, "run") \/ To(s, "admin")) /\ UNCHANGED <<fails, misses, mixed>>
    BY <1>7 DEF VerifyHit, access
  <2> QED BY <1>2, <2>1, SlotPasses
<1>8. ASSUME NEW s \in Slot, Keep(s) PROVE OneByOne'
  <2>1. To(s, "run") /\ UNCHANGED <<fails, misses, mixed>>
    BY <1>8 DEF Keep
  <2> QED BY <1>2, <2>1, SlotPasses
<1>9. ASSUME NEW s \in Slot, NEW kind \in {"admin", "user"}, Verify(s, kind) PROVE OneByOne'
  <2>1. UNCHANGED <<fails, misses, mixed>> /\ req[s] \in ReqType
    BY <1>9 DEF Verify, access, Typed
  <2>2. CASE req' = [req EXCEPT ![s].at = "keep", ![s].kind = kind]
    <3>1. [req[s] EXCEPT !.at = "keep", !.kind = kind].at \notin LoginStep
      BY <2>1 DEF ReqType, LoginStep
    <3> QED BY ZenonT(60), <2>1, <2>2, <3>1, SlotLeaves
  <2>3. CASE req' = [req EXCEPT ![s].at = "run", ![s].token = 0]
    <3>1. [req[s] EXCEPT !.at = "run", !.token = 0].at \notin LoginStep
      BY <2>1 DEF ReqType, LoginStep
    <3> QED BY ZenonT(60), <2>1, <2>3, <3>1, SlotLeaves
  <2>4. CASE To(s, "user") \/ Answer(s)
    BY <1>2, <2>1, <2>4, SlotPasses, SlotEnds
  <2> QED BY <1>9, <2>2, <2>3, <2>4 DEF Verify, NotFound
<1>10. ASSUME NEW t, Revoke(t) \/ Forget(t) PROVE OneByOne'
  BY <1>10, Unmoved DEF Revoke, Forget
<1>11. ASSUME NEW u, Disable(u) PROVE OneByOne'
  BY <1>11, Unmoved DEF Disable
<1> QED BY <1>1, <1>3, <1>4, <1>5, <1>6, <1>7, <1>8, <1>9, <1>10, <1>11,
           LoginKeeps, ReadKeeps, CountKeeps, LapseKeeps DEF AccessNext

(* The handlers behind the guard move no count. *)
LEMMA HandlerCounts ==
  ASSUME Typed, OneByOne, NEW s \in Slot,
         \/ \E i \in Item : ListMediaSources(s, i)
         \/ SpawnStrmProbe(s) \/ MediaSourceJson(s)
         \/ \E k \in 1 .. MaxMedia, range \in Ranges : PlayVideo(s, k, range) \/ TicketPlay(s, k, range)
         \/ \E k \in 1 .. MaxMedia : FindMedia(s, k)
         \/ PlaySubtitle(s) \/ Leave(s) \/ Drop(s)
  PROVE  OneByOne'
<1> USE DEF access
<1>1. \A at \in {"spawn", "list", "subtitle", "answered"} : at \notin LoginStep
  BY DEF At, LoginStep
<1>2. ASSUME NEW i \in Item, ListMediaSources(s, i) PROVE OneByOne'
  <2>1. (Answer(s) \/ To(s, "spawn")) /\ UNCHANGED <<fails, misses, mixed>>
    BY <1>2 DEF ListMediaSources, Reply
  <2> QED BY <1>1, <2>1, SlotPasses, SlotEnds
<1>3. ASSUME SpawnStrmProbe(s) PROVE OneByOne'
  <2>1. To(s, "list") /\ UNCHANGED <<fails, misses, mixed>>
    BY <1>3 DEF SpawnStrmProbe
  <2> QED BY <1>1, <2>1, SlotPasses
<1>4. ASSUME MediaSourceJson(s) PROVE OneByOne'
  <2>1. (Answer(s) \/ req' = req) /\ UNCHANGED <<fails, misses, mixed>>
    BY <1>4 DEF MediaSourceJson, Reply
  <2> QED BY <2>1, SlotEnds, Unmoved
<1>5. ASSUME NEW k, NEW range, NEW r \in ReqType, Deliver(s, k, range, r), UNCHANGED <<fails, misses, mixed>>
      PROVE  OneByOne'
  <2>1. [r EXCEPT !.at = "answered"].at \notin LoginStep
    BY DEF ReqType, LoginStep
  <2>2. Answer(s) \/ req' = [req EXCEPT ![s] = [r EXCEPT !.at = "answered"]]
    BY <1>5 DEF Deliver, Reply
  <2> QED BY <1>5, <2>1, <2>2, SlotLeaves, SlotEnds
<1>6. ASSUME NEW k, NEW range, PlayVideo(s, k, range) PROVE OneByOne'
  <2>1. req[s] \in ReqType
    BY DEF Typed
  <2> QED BY <1>5, <1>6, <2>1 DEF PlayVideo
<1>7. ASSUME NEW k, NEW range, TicketPlay(s, k, range) PROVE OneByOne'
  <2>1. [Idle EXCEPT !.route = "Video"] \in ReqType
    BY DEF Idle, ReqType, At, Kinds, Routes
  <2> QED BY <1>5, <1>7, <2>1 DEF TicketPlay
<1>8. ASSUME NEW k, FindMedia(s, k) PROVE OneByOne'
  <2>1. (Answer(s) \/ To(s, "subtitle")) /\ UNCHANGED <<fails, misses, mixed>>
    BY <1>8 DEF FindMedia, Reply
  <2> QED BY <1>1, <2>1, SlotPasses, SlotEnds
<1>9. ASSUME PlaySubtitle(s) PROVE OneByOne'
  <2>1. (Answer(s) \/ To(s, "answered")) /\ UNCHANGED <<fails, misses, mixed>>
    BY <1>9 DEF PlaySubtitle, Reply
  <2> QED BY <1>1, <2>1, SlotPasses, SlotEnds
<1>10. ASSUME Leave(s) \/ Drop(s) PROVE OneByOne'
  BY <1>10, SlotEnds DEF Leave, Drop, Reply, GiveUp
<1> QED BY <1>2, <1>3, <1>4, <1>6, <1>7, <1>8, <1>9, <1>10

(* Logins stay one by one. *)
LEMMA OneByOneKept == ASSUME Typed, OneByOne, [Next]_vars PROVE OneByOne'
<1>1. ASSUME NEW s \in Slot, NEW t \in Carried, NEW route \in Routes, Ask(s, t, route)
      PROVE  OneByOne'
  <2>1. PICK r : /\ req' = [req EXCEPT ![s] = r] /\ r.at \notin LoginStep
    <3> DEFINE cached == IF t \in DOMAIN seen THEN seen[t] ELSE "none"
               r == [Idle EXCEPT !.at = IF cached = "none" THEN "admin" ELSE "hit", !.kind = cached,
                                 !.token = t, !.route = route, !.valid = Valid(t, "admin") \/ Valid(t, "user")]
    <3>1. req' = [req EXCEPT ![s] = r]
      BY <1>1 DEF Ask, Begin
    <3>2. r.at \notin LoginStep
      BY DEF Idle, LoginStep
    <3> HIDE DEF r
    <3> QED BY <3>1, <3>2
  <2> QED BY <1>1, <2>1, SlotLeaves DEF Ask
<1>2. CASE Stop
  <2>1. fails' = [ip \in Ip |-> 0] /\ misses' = fails' /\ \A s \in Slot : req'[s].at = "idle"
    BY <1>2, IdleTyped DEF Stop, Restart
  <2> QED BY <2>1, AccessAssumption DEF OneByOne, In, LoginStep
<1>3. CASE \/ \E k \in 1 .. MaxMedia : ProbeMediaSource(k) \/ ProbeEnds(k)
           \/ \E i \in Item : DropSubtitles(i)
           \/ \E k \in 1 .. MaxMedia : DetectDeletion(k)
           \/ DropSources \/ ScanFails
           \/ \E f \in DOMAIN Film : InsertSource(f)
           \/ \E k \in 1 .. MaxMedia, f \in SubFile : AttachSubtitle(k, f)
  BY <1>3, Unmoved DEF ProbeMediaSource, ProbeEnds, DropSubtitles, DetectDeletion, DropSources, InsertSource, ScanFails, AttachSubtitle, access
<1>4. CASE UNCHANGED vars
  BY <1>4, Unmoved DEF vars, access
<1> QED BY <1>1, <1>2, <1>3, <1>4, AccessCounts, HandlerCounts DEF Next

-----------------------------------------------------------------------------
(* Probes. *)
Media == UNCHANGED <<media, nextMedia, probing, running, stale>>

(* Sources and their probes change in six actions only. *)
LEMMA OnlyProbes ==
  ASSUME [Next]_vars
  PROVE  \/ Media
         \/ \E s \in Slot : SpawnStrmProbe(s)
         \/ \E k \in 1 .. MaxMedia : ProbeMediaSource(k) \/ ProbeEnds(k)
         \/ Stop \/ DropSources \/ \E f \in DOMAIN Film : InsertSource(f)
<1> USE DEF Media, play
<1>1. ASSUME NEW s \in Slot,
             \/ \E i \in Item : ListMediaSources(s, i)
             \/ MediaSourceJson(s)
             \/ \E k \in 1 .. MaxMedia : FindMedia(s, k)
             \/ PlaySubtitle(s) \/ Leave(s) \/ Drop(s)
      PROVE  Media
  BY <1>1 DEF ListMediaSources, MediaSourceJson, FindMedia, PlaySubtitle, Leave, Drop
<1>2. ASSUME NEW s \in Slot, NEW k, NEW range, PlayVideo(s, k, range) \/ TicketPlay(s, k, range)
      PROVE  Media
  BY <1>2 DEF PlayVideo, TicketPlay
<1>3. CASE \/ \E i \in Item : DropSubtitles(i)
           \/ \E k \in 1 .. MaxMedia : DetectDeletion(k)
           \/ ScanFails
           \/ \E k \in 1 .. MaxMedia, f \in SubFile : AttachSubtitle(k, f)
  BY <1>3 DEF DropSubtitles, DetectDeletion, ScanFails, AttachSubtitle
<1>4. CASE UNCHANGED vars
  BY <1>4 DEF vars
<1> QED BY <1>1, <1>2, <1>3, <1>4 DEF Next

(* One probe of a source at a time, whatever happens. *)
LEMMA ProbedKept == ASSUME Probed, [Next]_vars PROVE Probed'
<1>1. CASE Media
  BY <1>1 DEF Media, Probed
<1>2. ASSUME NEW s \in Slot, SpawnStrmProbe(s) PROVE Probed'
  <2>1. PICK ids : /\ ids \cap probing = {} /\ probing' = probing \cup ids
                   /\ running' = [k \in DOMAIN running |-> IF k \in ids THEN running[k] + 1 ELSE running[k]]
                   /\ stale' = stale \cup {k \in ids \cap DOMAIN media : media[k].info # <<>>}
    BY <1>2 DEF SpawnStrmProbe
  <2>2. UNCHANGED <<media, nextMedia>>
    BY <1>2 DEF SpawnStrmProbe
  <2>3. ASSUME NEW k \in 1 .. MaxMedia PROVE running'[k] = IF k \in ids THEN 1 ELSE running[k]
    BY <2>1 DEF Probed
  <2>4. running' \in [1 .. MaxMedia -> Nat]
    BY <2>1 DEF Probed
  <2> QED BY <2>1, <2>2, <2>3, <2>4 DEF Probed
<1>3. ASSUME NEW k \in 1 .. MaxMedia, ProbeMediaSource(k) PROVE Probed'
  <2>1. PICK found : media' = [media EXCEPT ![k].info = found]
    BY <1>3 DEF ProbeMediaSource
  <2>2. UNCHANGED <<nextMedia, stale>> /\ probing' = probing \ {k} /\ running' = [running EXCEPT ![k] = @ - 1]
        /\ running[k] > 0
    BY <1>3 DEF ProbeMediaSource
  <2>3. running' \in [1 .. MaxMedia -> Nat] /\ running'[k] = 0 /\ \A j \in 1 .. MaxMedia \ {k} : running'[j] = running[j]
    BY <2>2 DEF Probed
  <2>4. DOMAIN media' = DOMAIN media /\ \A j \in DOMAIN media \ {k} : media'[j] = media[j]
    BY <2>1
  <2> QED BY <2>2, <2>3, <2>4 DEF Probed
<1>4. ASSUME NEW k \in 1 .. MaxMedia, ProbeEnds(k) PROVE Probed'
  <2>1. UNCHANGED <<media, nextMedia, stale>> /\ probing' = probing \ {k} /\ running' = [running EXCEPT ![k] = @ - 1]
        /\ running[k] > 0
    BY <1>4 DEF ProbeEnds
  <2>2. running' \in [1 .. MaxMedia -> Nat] /\ running'[k] = 0 /\ \A j \in 1 .. MaxMedia \ {k} : running'[j] = running[j]
    BY <2>1 DEF Probed
  <2> QED BY <2>1, <2>2 DEF Probed
<1>5. CASE Stop
  <2>1. UNCHANGED <<media, nextMedia, stale>> /\ running' = [k \in DOMAIN running |-> 0]
    BY <1>5 DEF Stop
  <2>2. running' \in [1 .. MaxMedia -> Nat] /\ \A j \in 1 .. MaxMedia : running'[j] = 0
    BY <2>1 DEF Probed
  <2> QED BY <2>1, <2>2 DEF Probed
<1>6. ASSUME NEW f \in DOMAIN Film, InsertSource(f) PROVE Probed'
  <2>1. media' = [k \in DOMAIN media \cup {nextMedia} |-> IF k = nextMedia THEN Row(replacing, f) ELSE media[k]]
    BY <1>6 DEF InsertSource
  <2>2. UNCHANGED <<running, probing, stale>> /\ nextMedia' = nextMedia + 1
    BY <1>6 DEF InsertSource
  <2>3. media'[nextMedia].info = <<>>
    BY <2>1 DEF Row
  <2>4. DOMAIN media' = DOMAIN media \cup {nextMedia} /\ \A j \in DOMAIN media \ {nextMedia} : media'[j] = media[j]
    BY <2>1
  <2> QED BY <2>2, <2>3, <2>4 DEF Probed
<1>7. CASE DropSources
  <2>1. /\ UNCHANGED <<running, probing, stale, nextMedia>>
        /\ DOMAIN media' \subseteq DOMAIN media /\ \A j \in DOMAIN media' : media'[j] = media[j]
    BY <1>7 DEF DropSources
  <2> QED BY <2>1 DEF Probed
<1> QED BY <1>1, <1>2, <1>3, <1>4, <1>5, <1>6, <1>7, OnlyProbes

(* Streams that were found are only lost to a stale probe. *)
LEMMA StreamsStay ==
  ASSUME Probed, [Next]_vars, NEW k \in DOMAIN media \cap DOMAIN media', media[k].info # <<>>, media'[k].info = <<>>
  PROVE  k \in stale
<1>1. CASE Media
  BY <1>1 DEF Media
<1>2. CASE \E s \in Slot : SpawnStrmProbe(s)
  BY <1>2 DEF SpawnStrmProbe
<1>3. ASSUME NEW j \in 1 .. MaxMedia, ProbeMediaSource(j) PROVE k \in stale
  BY <1>3 DEF ProbeMediaSource, Probed
<1>4. CASE \E j \in 1 .. MaxMedia : ProbeEnds(j)
  BY <1>4 DEF ProbeEnds
<1>5. CASE Stop
  BY <1>5 DEF Stop
<1>6. CASE DropSources \/ \E f \in DOMAIN Film : InsertSource(f)
  BY <1>6 DEF DropSources, InsertSource, Probed
<1> QED BY <1>1, <1>2, <1>3, <1>4, <1>5, <1>6, OnlyProbes

-----------------------------------------------------------------------------
(***************************************************************************)
(* Numbers: the least of a set, the greatest of two, a bound of a sequence. *)
(***************************************************************************)

LEMMA Least == ASSUME NEW T \in SUBSET Nat, T # {} PROVE \E x \in T : \A y \in T : x <= y
<1> DEFINE R == OpToRel(<, Nat)
<1>1. \A x, y \in Nat : y < x => <<y, x>> \in R
  BY DEF OpToRel
<1>2. IsWellFoundedOn(R, Nat)
  BY NatLessThanWellFounded
<1> HIDE DEF R
<1>3. PICK x \in T : \A y \in T : ~ (<<y, x>> \in R)
  BY <1>2, WFMin
<1>4. ASSUME NEW y \in T PROVE x <= y
  <2>1. ~ (<<y, x>> \in R) /\ x \in Nat /\ y \in Nat
    BY <1>3
  <2>2. ~ (y < x)
    BY <1>1, <2>1, Zenon
  <2> QED BY <2>1, <2>2
<1> QED BY <1>4

LEMMA GreaterOf ==
  ASSUME NEW a \in Int, NEW b \in Int
  PROVE  /\ Max({a, b}) = IF a >= b THEN a ELSE b
         /\ Min({a, b}) = IF a <= b THEN a ELSE b
BY DEF Max, Min

Stream == [type : STRING, index : Nat]

(* Finitely many numbers are bounded: the shortest unbounded prefix would be one
   longer than a bounded one. *)
LEMMA BoundExists ==
  ASSUME NEW n \in Nat, NEW f \in [1 .. n -> Nat] PROVE \E b \in Nat : \A k \in 1 .. n : f[k] <= b
<1> DEFINE Bounded(m) == \E b \in Nat : \A k \in 1 .. m : f[k] <= b
           T == {m \in 0 .. n : ~ Bounded(m)}
<1>1. Bounded(0)
  <2>1. \A k \in 1 .. 0 : f[k] <= 0
    OBVIOUS
  <2> QED BY <2>1
<1>2. ASSUME NEW m \in 1 .. n, Bounded(m - 1) PROVE Bounded(m)
  <2>1. PICK b \in Nat : \A k \in 1 .. m - 1 : f[k] <= b
    BY <1>2
  <2>2. f[m] \in Nat /\ b + f[m] \in Nat
    OBVIOUS
  <2>3. ASSUME NEW k \in 1 .. m PROVE f[k] <= b + f[m]
    <3>1. f[k] \in Nat /\ (k = m \/ f[k] <= b)
      BY <2>1
    <3> QED BY <2>2, <3>1
  <2> QED BY <2>2, <2>3
<1> HIDE DEF Bounded
<1>3. T = {}
  <2> SUFFICES ASSUME T # {} PROVE FALSE
    OBVIOUS
  <2>1. T \in SUBSET Nat
    OBVIOUS
  <2>2. PICK m \in T : \A k \in T : m <= k
    <3> HIDE DEF T
    <3> QED BY <2>1, Least
  <2>3. m \in 1 .. n
    BY <1>1
  <2>4. m - 1 \in 0 .. n /\ m - 1 \notin T
    BY <2>2, <2>3
  <2> QED BY <1>2, <2>3, <2>4
<1>4. Bounded(n)
  BY <1>3
<1> QED BY <1>4 DEF Bounded

LEMMA StreamIndex ==
  ASSUME NEW info \in Seq(Stream)
  PROVE  /\ Len(info) \in Nat /\ DOMAIN info = 1 .. Len(info)
         /\ \A k \in DOMAIN info : info[k].index \in Nat
<1>1. \A k \in DOMAIN info : info[k] \in Stream
  OBVIOUS
<1> QED BY <1>1 DEF Stream

(* NextIndex is above the index of every stream of the row. *)
LEMMA NextIndexAbove ==
  ASSUME NEW row, row.info \in Seq(Stream)
  PROVE  NextIndex(row) \in Nat /\ \A k \in DOMAIN row.info : row.info[k].index < NextIndex(row)
<1> DEFINE I == {st.index : st \in ToSet(row.info)} \cup {-1}
<1> DEFINE n == Len(row.info)
           f == [k \in 1 .. n |-> row.info[k].index]
<1>0. /\ n \in Nat /\ DOMAIN row.info = 1 .. n
      /\ \A k \in DOMAIN row.info : row.info[k].index \in Nat
  BY StreamIndex
<1>1. PICK b \in Nat : \A k \in DOMAIN row.info : row.info[k].index <= b
  <2>1. f \in [1 .. n -> Nat] /\ \A k \in 1 .. n : f[k] = row.info[k].index
    BY <1>0
  <2> HIDE DEF f, n
  <2>2. \E b \in Nat : \A k \in 1 .. n : f[k] <= b
    BY <1>0, <2>1, BoundExists, Zenon
  <2> QED BY <1>0, <2>1, <2>2
<1>2. \A k \in DOMAIN row.info : row.info[k].index \in Nat /\ row.info[k].index \in I
  BY <1>0 DEF ToSet
<1>3. \A i \in I : i \in Int /\ i <= b /\ i >= -1
  BY <1>1, <1>2 DEF ToSet
<1>4. -1 \in I
  OBVIOUS
<1> HIDE DEF I
<1> DEFINE T == {b - i : i \in I}
<1>5. T \in SUBSET Nat /\ T # {}
  BY <1>3, <1>4
<1>6. PICK least \in T : \A m \in T : least <= m
  <2> HIDE DEF T
  <2> QED BY <1>5, Least
<1>7. PICK top \in I : least = b - top
  OBVIOUS
<1>8. \A i \in I : top >= i
  <2> SUFFICES ASSUME NEW i \in I PROVE top >= i
    OBVIOUS
  <2>1. b - top <= b - i
    BY <1>6, <1>7
  <2> QED BY <1>3, <2>1
<1>9. Max(I) \in I /\ \A i \in I : Max(I) >= i
  BY <1>8 DEF Max
<1>10. NextIndex(row) = Max(I) + 1
  BY DEF NextIndex, I
<1>11. Max(I) \in Int /\ Max(I) >= -1
  BY <1>3, <1>9
<1>12. ASSUME NEW k \in DOMAIN row.info PROVE row.info[k].index < NextIndex(row)
  <2>1. row.info[k].index \in Nat /\ Max(I) >= row.info[k].index
    BY <1>2, <1>9
  <2> QED BY <1>10, <1>11, <2>1
<1> QED BY <1>10, <1>11, <1>12

-----------------------------------------------------------------------------
(***************************************************************************)
(* What is listed, and what is served.                                     *)
(***************************************************************************)

(* A listed subtitle stream is the file at its place, and no other stream has
   its index. *)
LEMMA ListingIsExact ==
  ASSUME NEW row, row.info \in Seq(Stream), NEW files \in Seq(SubFile),
         NEW l \in Listing(row, Streams(row, files))
  PROVE  /\ l.media = row.id /\ l.others = 1 /\ l.place \in Nat
         /\ l.place + 1 \in DOMAIN files /\ l.file = files[l.place + 1]
<1> DEFINE q == Streams(row, files)
           n == Len(row.info)
           top == NextIndex(row)
<1>1. n \in Nat /\ Len(files) \in Nat /\ DOMAIN row.info = 1 .. n /\ DOMAIN files = 1 .. Len(files)
  OBVIOUS
<1>2. top \in Nat /\ \A k \in 1 .. n : row.info[k].index < top /\ row.info[k].index \in Nat
  BY <1>1, StreamIndex, NextIndexAbove
<1>3. /\ DOMAIN q = 1 .. n + Len(files)
      /\ \A k \in 1 .. n : q[k] = StreamJson(row.info[k])
      /\ \A k \in n + 1 .. n + Len(files) :
           q[k] = [type |-> "Subtitle", index |-> (top + (k - n)) - 1, place |-> (k - n) - 1, file |-> files[k - n]]
  <2> DEFINE a == [k \in DOMAIN row.info |-> StreamJson(row.info[k])]
             c == [k \in DOMAIN files |-> [type |-> "Subtitle", index |-> top + k - 1, place |-> k - 1, file |-> files[k]]]
  <2>1. q = a \o c
    BY DEF Streams
  <2> DEFINE All == {a[k] : k \in 1 .. n} \cup {c[k] : k \in 1 .. Len(files)}
  <2>2. a \in Seq(All) /\ Len(a) = n
    BY <1>1
  <2>3. c \in Seq(All) /\ Len(c) = Len(files)
    BY <1>1
  <2>4. \A k \in 1 .. Len(files) :
          c[k] = [type |-> "Subtitle", index |-> (top + k) - 1, place |-> k - 1, file |-> files[k]]
    BY <1>1, <1>2
  <2>5. \A k \in 1 .. n : a[k] = StreamJson(row.info[k])
    BY <1>1
  <2> HIDE DEF a, c, q, All
  <2>6. DOMAIN q = 1 .. n + Len(files) /\ \A k \in 1 .. n + Len(files) : q[k] = IF k <= n THEN a[k] ELSE c[k - n]
    <3>1. Len(q) = n + Len(files) /\ DOMAIN q = 1 .. n + Len(files)
      <4>1. q \in Seq(All) /\ Len(q) = Len(a) + Len(c)
        BY <2>1, <2>2, <2>3, ConcatProperties
      <4>2. DOMAIN q = 1 .. Len(q)
        BY <4>1
      <4> QED BY <2>2, <2>3, <4>1, <4>2
    <3>2. \A k \in 1 .. n + Len(files) : q[k] = IF k <= n THEN a[k] ELSE c[k - n]
      BY <1>1, <2>1, <2>2, <2>3, ConcatProperties
    <3> QED BY <3>1, <3>2
  <2>7. ASSUME NEW k \in n + 1 .. n + Len(files) PROVE k - n \in 1 .. Len(files) /\ q[k] = c[k - n]
    BY <1>1, <2>6
  <2>8. \A k \in 1 .. n : q[k] = StreamJson(row.info[k])
    <3>1. \A k \in 1 .. n : k \in 1 .. n + Len(files) /\ k <= n
      BY <1>1
    <3> QED BY <2>5, <2>6, <3>1, Zenon
  <2>9. \A k \in n + 1 .. n + Len(files) :
          q[k] = [type |-> "Subtitle", index |-> (top + (k - n)) - 1, place |-> (k - n) - 1, file |-> files[k - n]]
    BY <2>4, <2>7, Zenon
  <2> QED BY <2>6, <2>8, <2>9
<1> HIDE DEF q, top
<1>a. \A x : StreamJson(x).place = -1 /\ StreamJson(x).index = x.index
  BY DEF StreamJson
<1>4. PICK st \in ToSet(q) : /\ st.place >= 0
        /\ l = [media |-> row.id, place |-> st.place, index |-> st.index, file |-> st.file,
                others |-> Cardinality({k \in DOMAIN q : q[k].index = st.index})]
  BY DEF Listing, q
<1>5. PICK k \in DOMAIN q : q[k] = st
  BY DEF ToSet
<1>6. k \in n + 1 .. n + Len(files)
  <2>1. k \in 1 .. n => st.place = -1
    BY <1>3, <1>5, <1>a
  <2>2. ~ (-1 >= 0)
    OBVIOUS
  <2>3. k \notin 1 .. n
    BY <1>4, <2>1, <2>2
  <2> QED BY <1>1, <1>3, <2>3
<1>7. st = [type |-> "Subtitle", index |-> (top + (k - n)) - 1, place |-> (k - n) - 1, file |-> files[k - n]]
  BY <1>3, <1>5, <1>6
<1>8. ASSUME NEW j \in DOMAIN q, q[j].index = st.index PROVE j = k
  <2>1. st.index = (top + (k - n)) - 1
    BY <1>7
  <2>2. CASE j \in 1 .. n
    <3>1. q[j].index < top /\ q[j].index \in Nat
      BY <1>2, <1>3, <1>a, <2>2
    <3> QED BY <1>1, <1>2, <1>6, <1>8, <2>1, <3>1
  <2>3. CASE j \in n + 1 .. n + Len(files)
    <3>1. q[j] = [type |-> "Subtitle", index |-> (top + (j - n)) - 1, place |-> (j - n) - 1, file |-> files[j - n]]
      BY <1>3, <2>3
    <3>2. q[j].index = (top + (j - n)) - 1
      BY <3>1
    <3> QED BY <1>1, <1>2, <1>6, <1>8, <2>1, <2>3, <3>2
  <2> QED BY <1>1, <1>3, <2>2, <2>3
<1>9. {j \in DOMAIN q : q[j].index = st.index} = {k}
  BY <1>5, <1>8
<1>10. l.others = 1
  BY <1>4, <1>9, FS_Singleton
<1>11. l.media = row.id /\ l.place = (k - n) - 1 /\ l.file = files[k - n]
  BY <1>4, <1>7
<1>12. (k - n) - 1 \in Nat /\ ((k - n) - 1) + 1 = k - n /\ k - n \in 1 .. Len(files)
  BY <1>1, <1>6
<1> QED BY <1>1, <1>10, <1>11, <1>12

RangeSet == {<<>>} \cup (RangeEnd \X RangeEnd)

(* parse_range answers the first and the last of the bytes that are wanted. *)
LEMMA ParsedIsWanted ==
  ASSUME NEW range \in RangeSet, NEW total \in Nat
  PROVE  LET r == ParseRange(range, total)
         IN \/ r = <<>> /\ range # <<>> /\ Wanted(range, total) = {}
            \/ \E first \in Nat, last \in Int :
                 /\ r = <<first, last>> /\ last < total /\ first <= last + 1
                 /\ Wanted(range, total) = first .. last /\ (range = <<>> \/ first <= last)
<1> DEFINE r == ParseRange(range, total)
<1>1. CASE range = <<>>
  <2>1. r = <<0, total - 1>>
    BY <1>1 DEF ParseRange
  <2>2. Wanted(range, total) = 0 .. total - 1
    BY <1>1 DEF Wanted
  <2> QED BY <1>1, <2>1, <2>2
<1>2. ASSUME NEW from \in RangeEnd, NEW to \in RangeEnd, range = <<from, to>>
      PROVE  \/ r = <<>> /\ Wanted(range, total) = {}
             \/ \E first \in Nat, last \in Int :
                  r = <<first, last>> /\ last < total /\ first <= last /\ Wanted(range, total) = first .. last
  <2>0. range # <<>> /\ range[1] = from /\ range[2] = to /\ from \in Int /\ to \in Int /\ from >= -1 /\ to >= -1
    BY <1>2 DEF RangeEnd
  <2>1. r = IF from = -1
            THEN IF total = 0 \/ to <= 0 THEN <<>> ELSE <<Max({total - to, 0}), total - 1>>
            ELSE IF from >= total THEN <<>>
            ELSE IF to = -1 THEN <<from, total - 1>>
            ELSE IF to < from THEN <<>> ELSE <<from, Min({to, total - 1})>>
    BY <2>0 DEF ParseRange
  <2>2. Wanted(range, total) = {b \in 0 .. total - 1 :
          \/ from = -1 /\ b >= total - to
          \/ from >= 0 /\ b >= from /\ (to = -1 \/ b <= to)}
    BY <2>0 DEF Wanted
  <2>3. CASE from = -1 /\ (total = 0 \/ to <= 0)
    <3>1. r = <<>>
      BY ONLY <2>1, <2>3
    <3>2. Wanted(range, total) = {}
      BY <2>0, <2>2, <2>3
    <3> QED BY <3>1, <3>2
  <2>4. CASE from = -1 /\ total > 0 /\ to > 0
    <3>1. r = <<Max({total - to, 0}), total - 1>>
      BY <2>0, <2>1, <2>4
    <3>2. Max({total - to, 0}) = IF total - to >= 0 THEN total - to ELSE 0
      BY <2>0, GreaterOf
    <3>3. PICK first \in Nat : first = Max({total - to, 0}) /\ first <= total - 1
      BY <2>0, <2>4, <3>2
    <3>4. Wanted(range, total) = first .. total - 1
      BY <2>0, <2>2, <2>4, <3>2, <3>3
    <3> QED BY <2>4, <3>1, <3>3, <3>4
  <2>5. CASE from >= 0 /\ (from >= total \/ (to # -1 /\ to < from))
    <3>1. r = <<>>
      BY <2>0, <2>1, <2>5
    <3>2. Wanted(range, total) = {}
      BY <2>0, <2>2, <2>5
    <3> QED BY <3>1, <3>2
  <2>6. CASE from >= 0 /\ from < total /\ to = -1
    <3>0. from # -1 /\ ~ (from >= total)
      BY <2>0, <2>6
    <3>1. r = <<from, total - 1>>
      BY ONLY <2>1, <2>6, <3>0
    <3>2. Wanted(range, total) = from .. total - 1
      BY <2>0, <2>2, <2>6
    <3> QED BY <2>0, <2>6, <3>1, <3>2
  <2>7. CASE from >= 0 /\ from < total /\ to >= from
    <3>1. r = <<from, Min({to, total - 1})>>
      BY <2>0, <2>1, <2>7
    <3>a. to \in Int /\ total - 1 \in Int
      BY <2>0
    <3>2. Min({to, total - 1}) = IF to <= total - 1 THEN to ELSE total - 1
      BY ONLY <3>a, GreaterOf
    <3>3. PICK last \in Int : last = Min({to, total - 1}) /\ last < total /\ from <= last
      BY <2>0, <2>7, <3>2
    <3>4. Wanted(range, total) = from .. last
      BY <2>0, <2>2, <2>7, <3>2, <3>3
    <3> QED BY <2>0, <2>7, <3>1, <3>3, <3>4
  <2> QED BY <2>0, <2>3, <2>4, <2>5, <2>6, <2>7
<1>3. range # <<>> => \E from, to \in RangeEnd : range = <<from, to>>
  BY DEF RangeSet
<1> HIDE DEF r
<1>4. \A first \in Nat, last \in Int : first <= last => first <= last + 1
  OBVIOUS
<1>5. CASE range # <<>>
  BY <1>2, <1>3, <1>4, <1>5 DEF r
<1> QED BY <1>1, <1>5 DEF r

(* A local file is served with exactly the bytes that are wanted, in order. *)
Served(a, range, size) ==
  /\ ToSet(a.got) = Wanted(range, size)
  /\ \A j, k \in DOMAIN a.got : j < k => a.got[j] < a.got[k]
  /\ a.status = 416 <=> Wanted(range, size) = {} /\ range # <<>>

LEMMA ServedIsWanted ==
  ASSUME NEW range \in RangeSet, NEW total \in Nat PROVE Served(ServeLocalFile(range, total), range, total)
<1> DEFINE r == ParseRange(range, total)
<1>1. CASE r = <<>> /\ range # <<>> /\ Wanted(range, total) = {}
  BY <1>1 DEF Served, ServeLocalFile, ToSet
<1>2. ASSUME NEW first \in Nat, NEW last \in Int, r = <<first, last>>, last < total, first <= last + 1,
             Wanted(range, total) = first .. last, range = <<>> \/ first <= last
      PROVE  Served(ServeLocalFile(range, total), range, total)
  <2> DEFINE got == [k \in 1 .. (last - first) + 1 |-> (first + k) - 1]
  <2>a. (last - first) + 1 \in Int /\ total - first \in Int /\ (last - first) + 1 <= total - first
    BY <1>2
  <2>1. Min({(last - first) + 1, total - first}) = (last - first) + 1
    BY ONLY <2>a, GreaterOf
  <2>2. Body(first, (last - first) + 1, total) = got
    BY <2>1 DEF Body
  <2>3. ServeLocalFile(range, total) = [status |-> IF range = <<>> THEN 200 ELSE 206, got |-> got]
    <3>1. r # <<>> /\ r[1] = first /\ r[2] = last
      BY <1>2
    <3> QED BY <2>2, <3>1 DEF ServeLocalFile
  <2>4. ToSet(got) = first .. last
    <3>1. \A b \in first .. last : (b - first) + 1 \in 1 .. (last - first) + 1 /\ got[(b - first) + 1] = b
      OBVIOUS
    <3>2. \A k \in 1 .. (last - first) + 1 : got[k] \in first .. last
      OBVIOUS
    <3> QED BY <3>1, <3>2 DEF ToSet
  <2>5. \A j, k \in DOMAIN got : j < k => got[j] < got[k]
    OBVIOUS
  <2>6. first .. last = {} => range = <<>>
    BY <1>2
  <2> HIDE DEF got
  <2> QED BY <1>2, <2>3, <2>4, <2>5, <2>6 DEF Served
<1> HIDE DEF r
<1> QED BY <1>1, <1>2, ParsedIsWanted DEF r

-----------------------------------------------------------------------------
(***************************************************************************)
(* The sources and their subtitle files.                                   *)
(***************************************************************************)

MediaRow == [item : Item, film : DOMAIN Film, info : Seq(Stream)]
Shelved ==
  /\ nextMedia \in Nat \ {0} /\ DOMAIN media \subseteq 1 .. nextMedia - 1 /\ DOMAIN subs = DOMAIN media
  /\ \A k \in DOMAIN media : media[k] \in MediaRow /\ subs[k] \in Seq(SubFile)
  /\ replacing \in Item \cup {NoItem}

(* The file f has the place p of source k, unless the source is gone, is about
   to go, its files deleted already, or was cut off there. *)
Stands(k, p, f) ==
  k \in DOMAIN media =>
    \/ k \in cut
    \/ IF subs[k] = <<>> THEN k \in leaving ELSE p + 1 \in DOMAIN subs[k] /\ subs[k][p + 1] = f

Shelf == <<media, subs, nextMedia, scan>>
Abandoned == Abandon /\ UNCHANGED <<media, subs, nextMedia>>
(* A replacement, or the deletion of one source, begins with the subtitles. *)
Clears == \E ids \in SUBSET DOMAIN media : ClearSubtitles(ids) /\ leaving = {} /\ replacing' \in Item \cup {NoItem} /\ UNCHANGED <<media, nextMedia>>
LEMMA OnlyScans ==
  ASSUME [Next]_vars
  PROVE  \/ UNCHANGED Shelf
         \/ \E k \in 1 .. MaxMedia : ProbeMediaSource(k)
         \/ Clears \/ Abandoned \/ DropSources
         \/ \E f \in DOMAIN Film : InsertSource(f)
         \/ \E k \in 1 .. MaxMedia, f \in SubFile : AttachSubtitle(k, f)
<1> USE DEF Shelf, play
<1>1. ASSUME NEW s \in Slot,
             \/ \E i \in Item : ListMediaSources(s, i)
             \/ SpawnStrmProbe(s) \/ MediaSourceJson(s)
             \/ \E k \in 1 .. MaxMedia : FindMedia(s, k)
             \/ PlaySubtitle(s) \/ Leave(s) \/ Drop(s)
      PROVE  UNCHANGED Shelf
  BY <1>1 DEF ListMediaSources, SpawnStrmProbe, MediaSourceJson, FindMedia, PlaySubtitle, Leave, Drop
<1>2. ASSUME NEW s \in Slot, NEW k, NEW range, PlayVideo(s, k, range) \/ TicketPlay(s, k, range)
      PROVE  UNCHANGED Shelf
  BY <1>2 DEF PlayVideo, TicketPlay
<1>3. ASSUME NEW k \in 1 .. MaxMedia, ProbeEnds(k) PROVE UNCHANGED Shelf
  BY <1>3 DEF ProbeEnds
<1>4. CASE UNCHANGED vars
  BY <1>4 DEF vars
<1>5. CASE Stop \/ ScanFails
  BY <1>5 DEF Stop, ScanFails, Abandoned
<1>6. ASSUME NEW i \in Item, DropSubtitles(i) PROVE Clears
  BY <1>6 DEF DropSubtitles, Clears, Scanning
<1>7. ASSUME NEW k \in 1 .. MaxMedia, DetectDeletion(k) PROVE Clears
  BY <1>7 DEF DetectDeletion, Clears, Scanning
<1> QED BY <1>1, <1>2, <1>3, <1>4, <1>5, <1>6, <1>7 DEF Next

LEMMA InsertedMedia ==
  ASSUME Shelved, NEW f \in DOMAIN Film, InsertSource(f)
  PROVE  /\ replacing \in Item /\ nextMedia' = nextMedia + 1 /\ replacing' = NoItem /\ UNCHANGED <<leaving, cut>>
         /\ DOMAIN media' = DOMAIN media \cup {nextMedia}
         /\ DOMAIN subs' = DOMAIN media'
         /\ media'[nextMedia] = Row(replacing, f) /\ subs'[nextMedia] = <<>>
         /\ \A k \in DOMAIN media' : k # nextMedia => media'[k] = media[k] /\ subs'[k] = subs[k]
BY DEF InsertSource, Shelved

LEMMA DroppedMedia ==
  ASSUME Shelved, DropSources
  PROVE  /\ UNCHANGED <<nextMedia, replacing, cut>> /\ leaving' = {}
         /\ DOMAIN media' = DOMAIN media \ leaving /\ DOMAIN subs' = DOMAIN media'
         /\ \A k \in DOMAIN media' : media'[k] = media[k] /\ subs'[k] = subs[k]
BY DEF DropSources, Shelved

LEMMA AttachedSub ==
  ASSUME Shelved, NEW k, NEW f \in SubFile, AttachSubtitle(k, f)
  PROVE  /\ UNCHANGED <<media, nextMedia, scan>> /\ leaving = {} /\ DOMAIN subs' = DOMAIN subs
         /\ k \in DOMAIN media
         /\ subs'[k] \in Seq(SubFile) /\ Len(subs'[k]) = Len(subs[k]) + 1
         /\ \A p \in DOMAIN subs[k] : subs'[k][p] = subs[k][p]
         /\ \A j \in DOMAIN media : j # k => subs'[j] = subs[j]
<1>1. UNCHANGED <<media, nextMedia, scan>> /\ leaving = {} /\ k \in DOMAIN media
      /\ subs' = [subs EXCEPT ![k] = Append(@, f)] /\ k \in DOMAIN subs /\ subs[k] \in Seq(SubFile)
  BY DEF AttachSubtitle, Scanning, Shelved
<1>2. subs'[k] = Append(subs[k], f) /\ DOMAIN subs' = DOMAIN subs /\ \A j \in DOMAIN subs : j # k => subs'[j] = subs[j]
  BY <1>1
<1>3. /\ subs'[k] \in Seq(SubFile) /\ Len(subs'[k]) = Len(subs[k]) + 1
      /\ \A p \in DOMAIN subs[k] : subs'[k][p] = subs[k][p]
  BY <1>1, <1>2
<1> QED BY <1>1, <1>2, <1>3 DEF Shelved

LEMMA ProbedMedia ==
  ASSUME Shelved, NEW k, ProbeMediaSource(k)
  PROVE  /\ UNCHANGED <<subs, nextMedia, scan>> /\ DOMAIN media' = DOMAIN media
         /\ \A j \in DOMAIN media : media'[j] \in MediaRow /\ media'[j].item = media[j].item
<1>1. PICK found \in Found(media[k].film) : media' = [media EXCEPT ![k].info = found]
  BY DEF ProbeMediaSource
<1>2. k \in DOMAIN media /\ UNCHANGED <<subs, nextMedia, scan>>
  BY DEF ProbeMediaSource
<1>3. found \in Seq(Stream)
  <2>1. media[k].film \in DOMAIN Film
    BY <1>2 DEF Shelved, MediaRow
  <2>2. Film[media[k].film].streams \in Seq(Stream)
    BY <2>1, PlaybackAssumption DEF Stream
  <2>3. <<>> \in Seq(Stream)
    OBVIOUS
  <2> QED BY <1>1, <2>2, <2>3 DEF Found
<1>4. DOMAIN media' = DOMAIN media /\ media'[k] = [media[k] EXCEPT !.info = found]
      /\ \A j \in DOMAIN media : j # k => media'[j] = media[j]
  BY <1>1, <1>2
<1>5. media[k] \in MediaRow
  BY <1>2 DEF Shelved
<1>6. [media[k] EXCEPT !.info = found] \in MediaRow /\ [media[k] EXCEPT !.info = found].item = media[k].item
  BY <1>3, <1>5 DEF MediaRow
<1> QED BY <1>2, <1>4, <1>6 DEF Shelved

LEMMA ShelvedKept == ASSUME Shelved, [Next]_vars PROVE Shelved'
<1>1. CASE UNCHANGED Shelf
  BY <1>1 DEF Shelf, scan, Shelved
<1>2. ASSUME NEW k \in 1 .. MaxMedia, ProbeMediaSource(k) PROVE Shelved'
  <2>1. /\ UNCHANGED <<subs, nextMedia, scan>> /\ DOMAIN media' = DOMAIN media
        /\ \A j \in DOMAIN media : media'[j] \in MediaRow
    BY <1>2, ProbedMedia
  <2>2. UNCHANGED <<subs, nextMedia, replacing>>
    BY <2>1 DEF scan
  <2> QED BY <2>1, <2>2 DEF Shelved
<1>3. CASE Clears
  <2>1. PICK ids \in SUBSET DOMAIN media : ClearSubtitles(ids) /\ replacing' \in Item \cup {NoItem} /\ UNCHANGED <<media, nextMedia>>
    BY <1>3 DEF Clears
  <2>2. <<>> \in Seq(SubFile)
    OBVIOUS
  <2>3. DOMAIN subs' = DOMAIN subs /\ \A k \in DOMAIN media : subs'[k] \in Seq(SubFile)
    BY <2>1, <2>2 DEF ClearSubtitles, Shelved
  <2> QED BY <2>1, <2>3 DEF Shelved
<1>6. CASE Abandoned
  BY <1>6 DEF Abandoned, Abandon, Shelved
<1>7. CASE DropSources
  BY <1>7, DroppedMedia DEF Shelved
<1>4. ASSUME NEW f \in DOMAIN Film, InsertSource(f) PROVE Shelved'
  <2>1. PICK n \in Nat : /\ n = nextMedia /\ replacing \in Item /\ nextMedia' = n + 1 /\ replacing' = NoItem
                          /\ DOMAIN media' = DOMAIN media \cup {n}
                          /\ DOMAIN subs' = DOMAIN media'
                          /\ media'[n] = Row(replacing, f) /\ subs'[n] = <<>>
                          /\ \A k \in DOMAIN media' : k # n => media'[k] = media[k] /\ subs'[k] = subs[k]
    <3>1. nextMedia \in Nat
      BY DEF Shelved
    <3> QED BY <1>4, <3>1, InsertedMedia
  <2>2. media'[n] \in MediaRow /\ subs'[n] \in Seq(SubFile)
    <3>1. media'[n] = [item |-> replacing, film |-> f, info |-> <<>>]
      BY <2>1 DEF Row
    <3>2. <<>> \in Seq(Stream) /\ <<>> \in Seq(SubFile)
      OBVIOUS
    <3> QED BY <2>1, <3>1, <3>2 DEF MediaRow
  <2>3. ASSUME NEW k \in DOMAIN media' PROVE media'[k] \in MediaRow /\ subs'[k] \in Seq(SubFile)
    <3>1. k # n => k \in DOMAIN media /\ media'[k] = media[k] /\ subs'[k] = subs[k]
      BY <2>1
    <3> QED BY <2>2, <3>1 DEF Shelved
  <2>4. DOMAIN media' \subseteq 1 .. nextMedia' - 1
    <3>1. ASSUME NEW k \in DOMAIN media' PROVE k \in 1 .. n
      <4>1. k = n \/ k \in 1 .. n - 1
        BY <2>1 DEF Shelved
      <4>2. n >= 1
        BY <2>1 DEF Shelved
      <4> QED BY <2>1, <4>1, <4>2
    <3>2. nextMedia' - 1 = n
      BY <2>1
    <3> QED BY <3>1, <3>2
  <2>5. nextMedia' \in Nat \ {0}
    BY <2>1
  <2> QED BY <2>1, <2>3, <2>4, <2>5 DEF Shelved
<1>5. ASSUME NEW k \in 1 .. MaxMedia, NEW f \in SubFile, AttachSubtitle(k, f) PROVE Shelved'
  <2>1. /\ UNCHANGED <<media, nextMedia, scan>> /\ DOMAIN subs' = DOMAIN subs
        /\ subs'[k] \in Seq(SubFile) /\ \A j \in DOMAIN media : j # k => subs'[j] = subs[j]
    BY <1>5, AttachedSub
  <2> QED BY <2>1 DEF Shelved, scan
<1> QED BY <1>1, <1>2, <1>3, <1>4, <1>5, <1>6, <1>7, OnlyScans

(* A file keeps its place for as long as it is there. *)
LEMMA StandsKept ==
  ASSUME Shelved, [Next]_vars, NEW k \in 1 .. nextMedia - 1, NEW p \in Nat, NEW f, Stands(k, p, f)
  PROVE  Stands(k, p, f)' /\ k \in 1 .. nextMedia' - 1
<1>0. nextMedia \in Nat /\ k < nextMedia
  BY DEF Shelved
<1>1. CASE UNCHANGED Shelf
  BY <1>1 DEF Shelf, scan, Stands
<1>2. ASSUME NEW j \in 1 .. MaxMedia, ProbeMediaSource(j) PROVE Stands(k, p, f)' /\ k \in 1 .. nextMedia' - 1
  BY <1>2, ProbedMedia DEF Stands, scan
<1>3. CASE Clears
  <2>1. PICK ids \in SUBSET DOMAIN media : ClearSubtitles(ids) /\ leaving = {} /\ UNCHANGED <<media, nextMedia>>
    BY <1>3 DEF Clears
  <2>2. /\ leaving' = ids /\ cut' = cut
        /\ \A j \in DOMAIN media : subs'[j] = IF j \in ids THEN <<>> ELSE subs[j]
    BY <2>1 DEF ClearSubtitles, Shelved
  <2> QED BY <2>1, <2>2 DEF Stands
<1>4. ASSUME NEW g \in DOMAIN Film, InsertSource(g) PROVE Stands(k, p, f)' /\ k \in 1 .. nextMedia' - 1
  <2>1. PICK n \in Nat : /\ n = nextMedia /\ nextMedia' = n + 1 /\ UNCHANGED <<leaving, cut>>
                          /\ DOMAIN media' = DOMAIN media \cup {n}
                          /\ \A j \in DOMAIN media' : j # n => media'[j] = media[j] /\ subs'[j] = subs[j]
    BY <1>0, <1>4, InsertedMedia
  <2>2. k \in DOMAIN media' => k \in DOMAIN media /\ media'[k] = media[k] /\ subs'[k] = subs[k]
    <3>1. k # n
      BY <1>0, <2>1
    <3> QED BY <2>1, <3>1
  <2>3. Stands(k, p, f)'
    BY <2>1, <2>2 DEF Stands
  <2> QED BY <1>0, <2>1, <2>3
<1>5. ASSUME NEW j \in 1 .. MaxMedia, NEW g \in SubFile, AttachSubtitle(j, g)
      PROVE  Stands(k, p, f)' /\ k \in 1 .. nextMedia' - 1
  <2>1. UNCHANGED <<media, nextMedia, leaving, cut>> /\ leaving = {}
    BY <1>5, AttachedSub DEF scan
  <2>2. CASE k = j /\ k \in DOMAIN media /\ k \notin cut
    <3>2. p + 1 \in DOMAIN subs[k] /\ subs[k][p + 1] = f
      BY <2>1, <2>2 DEF Stands
    <3>3. subs[k] \in Seq(SubFile) /\ subs'[k] \in Seq(SubFile) /\ Len(subs'[k]) = Len(subs[k]) + 1
          /\ subs'[k][p + 1] = f
      BY <1>5, <2>2, <3>2, AttachedSub DEF Shelved
    <3>4. p + 1 \in DOMAIN subs'[k] /\ subs'[k] # <<>>
      BY <3>2, <3>3
    <3> QED BY <2>1, <3>3, <3>4 DEF Stands
  <2>3. CASE k # j /\ k \in DOMAIN media
    <3>1. subs'[k] = subs[k]
      BY <1>5, <2>3, AttachedSub
    <3> QED BY <2>1, <3>1 DEF Stands
  <2>4. CASE k \notin DOMAIN media \/ k \in cut
    BY <2>1, <2>4 DEF Stands
  <2> QED BY <2>1, <2>2, <2>3, <2>4
<1>6. CASE Abandoned
  BY <1>6 DEF Abandoned, Abandon, Stands
<1>7. CASE DropSources
  BY <1>7, DroppedMedia DEF Stands
<1> QED BY <1>1, <1>2, <1>3, <1>4, <1>5, <1>6, <1>7, OnlyScans

(* What was cut off stays known. *)
LEMMA CutGrows == ASSUME [Next]_vars PROVE cut \subseteq cut'
<1>1. CASE UNCHANGED Shelf
  BY <1>1 DEF Shelf, scan
<1>2. CASE Clears \/ Abandoned \/ DropSources
  BY <1>2 DEF Clears, ClearSubtitles, Abandoned, Abandon, DropSources
<1>3. ASSUME NEW k, NEW f, ProbeMediaSource(k) \/ InsertSource(f) \/ AttachSubtitle(k, f) PROVE cut \subseteq cut'
  BY <1>3 DEF ProbeMediaSource, InsertSource, AttachSubtitle, scan
<1> QED BY <1>1, <1>2, <1>3, OnlyScans

-----------------------------------------------------------------------------
(***************************************************************************)
(* What a request holds.                                                   *)
(***************************************************************************)

(* A subtitle that is listed now: an index of its own, and the file at its
   place. *)
Shown(l) ==
  /\ l.others = 1 /\ l.place \in Nat /\ l.media \in DOMAIN media
  /\ l.place + 1 \in DOMAIN subs[l.media] /\ l.file = subs[l.media][l.place + 1]
(* What was listed stands. *)
ListedStands ==
  \A l \in listed : /\ l.others = 1 /\ l.place \in Nat /\ l.media \in 1 .. nextMedia - 1
                    /\ Stands(l.media, l.place, l.file)

(* The record of a handler, its listed rows, the place it will look at, and the
   answer it gave: the file that stands at the place, or the bytes wanted. *)
HeldRow(h) == {"rows", "got", "status"} \subseteq DOMAIN h /\ \A row \in h.rows : row.info \in Seq(Stream)
Placed(h) == h.media \in 1 .. nextMedia - 1 /\ h.place \in Nat
GaveFile(h) ==
  /\ Placed(h)
  /\ \E f : /\ h.got = <<f>> /\ Stands(h.media, h.place, f)
            /\ \A l \in listed : l.media = h.media /\ l.place = h.place => l.file = f \/ l.media \in cut
Late == {"subtitle", "answered"}
Carries(h, r) ==
  /\ HeldRow(h)
  /\ r.at = "subtitle" => Placed(h)
  /\ r.at = "answered" /\ r.route = "Subtitle" => GaveFile(h)
  /\ r.at = "answered" /\ r.route = "Video" /\ h.size >= 0 => Served(h, h.range, h.size)
Carrying == DOMAIN held = Slot /\ \A s \in Slot : Carries(held[s], req[s])

DInv == Shelved /\ ListedStands /\ Carrying

LEMMA NothingHeld ==
  /\ HeldRow(Nothing)
  /\ \A k, place : LET h == [Nothing EXCEPT !.media = k, !.place = place]
                   IN HeldRow(h) /\ h.media = k /\ h.place = place
  /\ \A i, rows : LET h == [Nothing EXCEPT !.item = i, !.rows = rows]
                  IN {"rows", "got", "status"} \subseteq DOMAIN h /\ h.rows = rows
  /\ \A k, range, size, status, got :
       LET h == [Nothing EXCEPT !.media = k, !.range = range, !.size = size, !.status = status, !.got = got]
       IN HeldRow(h) /\ h.range = range /\ h.size = size /\ h.status = status /\ h.got = got
<1>1. HeldRow(Nothing)
  BY DEF HeldRow, Nothing
<1>2. ASSUME NEW k, NEW place
      PROVE  LET h == [Nothing EXCEPT !.media = k, !.place = place]
             IN HeldRow(h) /\ h.media = k /\ h.place = place
  BY DEF HeldRow, Nothing
<1>3. ASSUME NEW i, NEW rows
      PROVE  LET h == [Nothing EXCEPT !.item = i, !.rows = rows]
             IN {"rows", "got", "status"} \subseteq DOMAIN h /\ h.rows = rows
  BY DEF HeldRow, Nothing
<1>4. ASSUME NEW k, NEW range, NEW size, NEW status, NEW got
      PROVE  LET h == [Nothing EXCEPT !.media = k, !.range = range, !.size = size, !.status = status, !.got = got]
             IN HeldRow(h) /\ h.range = range /\ h.size = size /\ h.status = status /\ h.got = got
  BY DEF HeldRow, Nothing
<1> QED BY <1>1, <1>2, <1>3, <1>4

(* What the steps of logging in and of the guard leave alone. *)
Waiting == /\ held' = held
           /\ \A s \in Slot : req'[s].at \in Late => req'[s] = req[s]
LEMMA OneWaits ==
  ASSUME Typed, held' = held, NEW s \in Slot, NEW r, req' = [req EXCEPT ![s] = r], r.at \notin Late
  PROVE  Waiting
BY DEF Waiting, Typed
LEMMA ToWaits ==
  ASSUME Typed, held' = held, NEW s \in Slot, NEW at, To(s, at), at \notin Late
  PROVE  Waiting
<1>1. req' = [req EXCEPT ![s] = [req[s] EXCEPT !.at = at]] /\ req[s] \in ReqType
  BY DEF To, Typed
<1>2. [req[s] EXCEPT !.at = at].at = at
  BY <1>1 DEF ReqType
<1> QED BY <1>1, <1>2, OneWaits
LEMMA AnswerWaits == ASSUME Typed, held' = held, NEW s \in Slot, Answer(s) PROVE Waiting
<1>1. Idle.at \notin Late
  BY DEF Idle, Late
<1> QED BY <1>1, OneWaits DEF Answer

LEMMA AccessWaits == ASSUME Typed, held' = held, AccessNext PROVE Waiting
<1>0. \A at \in LoginStep \cup AdminStep \cup GuardStep \cup {"idle", "run"} : at \notin Late
  BY DEF LoginStep, AdminStep, GuardStep, Late
<1> USE DEF LoginStep, AdminStep, GuardStep
<1>1. ASSUME NEW s \in Slot, NEW ip \in Ip, NEW u, NEW right, Login(s, ip, u, right) PROVE Waiting
  <2>1. PICK r : req' = [req EXCEPT ![s] = r] /\ r.at \in {"find", "idle"}
    <3> DEFINE r == IF Allowed(ip) THEN [Idle EXCEPT !.at = "find", !.ip = ip, !.user = u, !.right = right] ELSE Idle
    <3>1. req' = [req EXCEPT ![s] = r]
      BY <1>1 DEF Login, Begin
    <3>2. r.at \in {"find", "idle"}
      BY DEF Idle
    <3> HIDE DEF r
    <3> QED BY <3>1, <3>2
  <2> QED BY <1>0, <2>1, OneWaits
<1>2. ASSUME NEW s \in Slot, NEW u, NEW right, AdminLogin(s, u, right) PROVE Waiting
  <2>1. [Idle EXCEPT !.at = "find admin", !.user = u, !.right = right].at = "find admin"
    BY DEF Idle
  <2> QED BY <1>0, <1>2, <2>1, OneWaits DEF AdminLogin, Begin
<1>3. ASSUME NEW s \in Slot, FindUser(s) \/ InsertToken(s) \/ FindAdmin(s) \/ VerifyHit(s) \/ Keep(s)
      PROVE  Waiting
  <2>1. Answer(s) \/ \E at \in LoginStep \cup AdminStep \cup GuardStep \cup {"idle", "run"} : To(s, at)
    BY <1>3 DEF FindUser, InsertToken, FindAdmin, VerifyHit, Keep
  <2> QED BY <1>0, <2>1, ToWaits, AnswerWaits
<1>4. ASSUME NEW s \in Slot, CountFail(s) \/ ClearFails(s) \/ InsertAdminToken(s) PROVE Waiting
  BY <1>4, AnswerWaits DEF CountFail, ClearFails, InsertAdminToken
<1>5. ASSUME NEW s \in Slot, ReadFails(s) PROVE Waiting
  <2>1. req[s] \in ReqType
    BY DEF Typed
  <2>2. [req[s] EXCEPT !.at = "count", !.count = fails[req[s].ip]].at = "count"
    BY <2>1 DEF ReqType
  <2> QED BY <1>0, <1>5, <2>2, OneWaits DEF ReadFails
<1>6. ASSUME NEW s \in Slot, NEW kind \in {"admin", "user"}, Verify(s, kind) PROVE Waiting
  <2>1. req[s] \in ReqType
    BY DEF Typed
  <2>2. CASE req' = [req EXCEPT ![s].at = "keep", ![s].kind = kind]
    <3>1. [req[s] EXCEPT !.at = "keep", !.kind = kind].at = "keep"
      BY <2>1 DEF ReqType
    <3> QED BY <1>0, <2>2, <3>1, OneWaits
  <2>3. CASE req' = [req EXCEPT ![s].at = "run", ![s].token = 0]
    <3>1. [req[s] EXCEPT !.at = "run", !.token = 0].at = "run"
      BY <2>1 DEF ReqType
    <3> QED BY <1>0, <2>3, <3>1, OneWaits
  <2>4. CASE To(s, "user") \/ Answer(s)
    BY <1>0, <2>4, ToWaits, AnswerWaits
  <2> QED BY <1>6, <2>2, <2>3, <2>4 DEF Verify, NotFound
<1>7. CASE \/ \E t \in DOMAIN tokens : Revoke(t) \/ Forget(t)
           \/ \E u \in User : Disable(u)
           \/ \E ip \in Ip : Lapse(ip)
  BY <1>7 DEF Revoke, Forget, Disable, Lapse, Waiting
<1> QED BY <1>1, <1>2, <1>3, <1>4, <1>5, <1>6, <1>7 DEF AccessNext

(* A request of the handlers arrives. *)
LEMMA AskWaits ==
  ASSUME Typed, held' = held, NEW s \in Slot, NEW t, NEW route, Ask(s, t, route) PROVE Waiting
<1>1. PICK r : req' = [req EXCEPT ![s] = r] /\ r.at \in {"admin", "hit"}
  <2> DEFINE cached == IF t \in DOMAIN seen THEN seen[t] ELSE "none"
             r == [Idle EXCEPT !.at = IF cached = "none" THEN "admin" ELSE "hit", !.kind = cached,
                               !.token = t, !.route = route, !.valid = Valid(t, "admin") \/ Valid(t, "user")]
  <2>1. req' = [req EXCEPT ![s] = r]
    BY DEF Ask, Begin
  <2>2. r.at \in {"admin", "hit"}
    BY DEF Idle
  <2> HIDE DEF r
  <2> QED BY <2>1, <2>2
<1> QED BY <1>1, OneWaits DEF Late

-----------------------------------------------------------------------------
(* What is listed is at its place, and so is what was listed before. *)
LEMMA ListedGrows ==
  ASSUME Carrying, Shelved, [Next]_vars PROVE \A l \in listed' : l \in listed \/ Shown(l)
<1> USE DEF play
<1>1. ASSUME NEW s \in Slot, MediaSourceJson(s) PROVE \A l \in listed' : l \in listed \/ Shown(l)
  <2>1. PICK row \in held[s].rows :
          listed' = listed \cup Listing(row, Streams(row, IF row.id \in DOMAIN subs THEN subs[row.id] ELSE <<>>))
    BY <1>1 DEF MediaSourceJson
  <2>2. row.info \in Seq(Stream)
    BY DEF Carrying, Carries, HeldRow
  <2>3. CASE row.id \in DOMAIN subs
    <3>1. subs[row.id] \in Seq(SubFile) /\ row.id \in DOMAIN media
      BY <2>3 DEF Shelved
    <3>2. \A l \in Listing(row, Streams(row, subs[row.id])) :
            /\ l.media = row.id /\ l.others = 1 /\ l.place \in Nat
            /\ l.place + 1 \in DOMAIN subs[row.id] /\ l.file = subs[row.id][l.place + 1]
      BY <2>2, <3>1, ListingIsExact
    <3>3. \A l \in Listing(row, Streams(row, subs[row.id])) : Shown(l)
      BY <3>1, <3>2 DEF Shown
    <3> QED BY <2>1, <2>3, <3>3
  <2>4. CASE row.id \notin DOMAIN subs
    <3>1. <<>> \in Seq(SubFile) /\ DOMAIN <<>> = {}
      OBVIOUS
    <3>2. \A l \in Listing(row, Streams(row, <<>>)) : l.place + 1 \in DOMAIN <<>>
      BY <2>2, <3>1, ListingIsExact
    <3> QED BY <2>1, <2>4, <3>1, <3>2
  <2> QED BY <2>3, <2>4
<1>2. ASSUME NEW s \in Slot,
             \/ \E t \in Carried, route \in Routes : Ask(s, t, route) /\ UNCHANGED <<play, held>>
             \/ \E i \in Item : ListMediaSources(s, i)
             \/ SpawnStrmProbe(s)
             \/ \E k \in 1 .. MaxMedia : FindMedia(s, k)
             \/ PlaySubtitle(s) \/ Leave(s) \/ Drop(s)
      PROVE  listed' = listed
  BY <1>2 DEF ListMediaSources, SpawnStrmProbe, FindMedia, PlaySubtitle, Leave, Drop
<1>3. ASSUME NEW s \in Slot, NEW k, NEW range, PlayVideo(s, k, range) \/ TicketPlay(s, k, range)
      PROVE  listed' = listed
  BY <1>3 DEF PlayVideo, TicketPlay
<1>4. ASSUME NEW k \in 1 .. MaxMedia, ProbeMediaSource(k) \/ ProbeEnds(k) PROVE listed' = listed
  BY <1>4 DEF ProbeMediaSource, ProbeEnds
<1>5. CASE \/ \E i \in Item : DropSubtitles(i)
           \/ \E k \in 1 .. MaxMedia : DetectDeletion(k)
           \/ DropSources \/ ScanFails
           \/ \E f \in DOMAIN Film : InsertSource(f)
           \/ \E k \in 1 .. MaxMedia, f \in SubFile : AttachSubtitle(k, f)
  BY <1>5 DEF DropSubtitles, DetectDeletion, DropSources, InsertSource, ScanFails, AttachSubtitle
<1>6. CASE UNCHANGED vars \/ Stop \/ (AccessNext /\ UNCHANGED <<play, held>>)
  BY <1>6 DEF vars, Stop
<1> QED BY <1>1, <1>2, <1>3, <1>4, <1>5, <1>6 DEF Next

(* A listed subtitle stands where it is shown, and nothing else stands there. *)
LEMMA ShownStands ==
  ASSUME Shelved, NEW l, Shown(l)
  PROVE  /\ l.others = 1 /\ l.place \in Nat /\ l.media \in 1 .. nextMedia - 1
         /\ Stands(l.media, l.place, l.file)
         /\ \A f : Stands(l.media, l.place, f) => l.file = f \/ l.media \in cut
<1>1. subs[l.media] # <<>>
  BY DEF Shown
<1> QED BY <1>1 DEF Shown, Stands, Shelved

LEMMA ListedKept ==
  ASSUME DInv, [Next]_vars PROVE ListedStands'
<1> SUFFICES ASSUME NEW l \in listed'
             PROVE  /\ l.others = 1 /\ l.place \in Nat /\ l.media \in 1 .. nextMedia' - 1
                    /\ Stands(l.media, l.place, l.file)'
  BY DEF ListedStands
<1>1. /\ l.others = 1 /\ l.place \in Nat /\ l.media \in 1 .. nextMedia - 1
      /\ Stands(l.media, l.place, l.file)
  BY ListedGrows, ShownStands DEF DInv, ListedStands
<1>2. PICK k, p, f : k = l.media /\ p = l.place /\ f = l.file
  OBVIOUS
<1>3. k \in 1 .. nextMedia - 1 /\ p \in Nat /\ Stands(k, p, f)
  BY <1>1, <1>2
<1>4. Stands(k, p, f)' /\ k \in 1 .. nextMedia' - 1
  BY <1>3, StandsKept DEF DInv
<1> QED BY <1>1, <1>2, <1>4

(* A handler that is not touched still carries what it did. *)
LEMMA CarriesOn ==
  ASSUME DInv, [Next]_vars, NEW s \in Slot, held'[s] = held[s], req'[s].at \in Late => req'[s] = req[s]
  PROVE  Carries(held[s], req[s])' 
<1>1. PICK h : h = held[s]
  OBVIOUS
<1>2. PICK r : r = req'[s]
  OBVIOUS
<1>3. Carries(h, req[s])
  BY <1>1 DEF DInv, Carrying
<1>4. HeldRow(h)
  BY <1>3 DEF Carries
<1>5. ASSUME Placed(h) PROVE Placed(h)'
  <2>1. nextMedia' >= nextMedia /\ nextMedia \in Nat /\ nextMedia' \in Nat
    <3>1. Shelved /\ Shelved'
      BY ShelvedKept DEF DInv
    <3>2. nextMedia' = nextMedia \/ nextMedia' = nextMedia + 1
      BY <3>1, OnlyScans, ProbedMedia, InsertedMedia, DroppedMedia, AttachedSub DEF Shelf, Clears, Abandoned
    <3> QED BY <3>1, <3>2 DEF Shelved
  <2> QED BY <1>5, <2>1 DEF Placed
<1>6. ASSUME GaveFile(h) PROVE GaveFile(h)'
  <2>1. PICK f : /\ h.got = <<f>> /\ Stands(h.media, h.place, f)
                 /\ \A l \in listed : l.media = h.media /\ l.place = h.place => l.file = f \/ l.media \in cut
    BY <1>6 DEF GaveFile
  <2>2. PICK k, p : k = h.media /\ p = h.place
    OBVIOUS
  <2>3. k \in 1 .. nextMedia - 1 /\ p \in Nat /\ Stands(k, p, f)
    BY <1>6, <2>1, <2>2 DEF GaveFile, Placed
  <2>4. Stands(k, p, f)'
    BY <2>3, StandsKept DEF DInv
  <2>5. ASSUME NEW l \in listed', l.media = k, l.place = p PROVE l.file = f \/ l.media \in cut'
    <3>1. l \in listed \/ Shown(l)
      BY ListedGrows DEF DInv
    <3>2. Shown(l) => l.file = f \/ k \in cut
      BY <2>3, <2>5, ShownStands DEF DInv
    <3> QED BY <2>1, <2>2, <2>5, <3>1, <3>2, CutGrows
  <2> QED BY <1>5, <1>6, <2>1, <2>2, <2>4, <2>5 DEF GaveFile
<1>7. Carries(h, r)'
  BY <1>1, <1>2, <1>3, <1>4, <1>5, <1>6 DEF Carries, Late
<1> QED BY <1>1, <1>2, <1>7

(* One request moves. *)
LEMMA AloneCarries ==
  ASSUME DInv, Typed, [Next]_vars, NEW s \in Slot, NEW h, NEW r,
         held' = [held EXCEPT ![s] = h], req' = [req EXCEPT ![s] = r], Carries(h, r)'
  PROVE  Carrying'
<1>1. DOMAIN held = Slot /\ DOMAIN req = Slot
  BY DEF DInv, Carrying, Typed
<1>2. held'[s] = h /\ req'[s] = r /\ \A q \in Slot \ {s} : held'[q] = held[q] /\ req'[q] = req[q]
  BY <1>1
<1>3. \A q \in Slot \ {s} : Carries(held[q], req[q])'
  BY <1>2, CarriesOn
<1>4. Carries(held[s], req[s])'
  BY <1>2
<1>5. DOMAIN held' = Slot
  BY <1>1
<1> QED BY <1>3, <1>4, <1>5 DEF Carrying

LEMMA RestCarries ==
  ASSUME DInv, [Next]_vars, Waiting PROVE Carrying'
<1>1. DOMAIN held' = Slot
  BY DEF Waiting, DInv, Carrying
<1>2. ASSUME NEW q \in Slot PROVE Carries(held[q], req[q])'
  <2>1. held'[q] = held[q] /\ (req'[q].at \in Late => req'[q] = req[q])
    BY DEF Waiting
  <2> QED BY <2>1, CarriesOn
<1> QED BY <1>1, <1>2 DEF Carrying

LEMMA ReplyCarries ==
  ASSUME DInv, Typed, [Next]_vars, NEW s \in Slot, Reply(s) PROVE Carrying'
<1>1. held' = [held EXCEPT ![s] = Nothing] /\ req' = [req EXCEPT ![s] = Idle]
  BY DEF Reply, Answer, Hold
<1>2. Carries(Nothing, Idle)'
  BY NothingHeld DEF Carries, Idle
<1> QED BY <1>1, <1>2, AloneCarries

(* A request that moves on to a step where nothing is asked of it but rows. *)
LEMMA MovesOnCarries ==
  ASSUME DInv, Typed, [Next]_vars, NEW s \in Slot, NEW h, NEW at,
         held' = [held EXCEPT ![s] = h], To(s, at), HeldRow(h), at \notin Late
  PROVE  Carrying'
<1>1. req' = [req EXCEPT ![s] = [req[s] EXCEPT !.at = at]] /\ req[s] \in ReqType
  BY DEF To, Typed
<1>2. [req[s] EXCEPT !.at = at].at = at
  BY <1>1 DEF ReqType
<1>3. Carries(h, [req[s] EXCEPT !.at = at])'
  BY <1>2 DEF Carries, Late, HeldRow
<1> QED BY ZenonT(60), <1>1, <1>3, AloneCarries

LEMMA ListCarries ==
  ASSUME DInv, Typed, [Next]_vars, NEW s \in Slot, NEW i \in Item, ListMediaSources(s, i) PROVE Carrying'
<1> DEFINE ids == {k \in DOMAIN media : media[k].item = i}
           rows == {[id |-> k, film |-> media[k].film, info |-> media[k].info] : k \in ids}
           h == [Nothing EXCEPT !.item = i, !.rows = rows]
<1>1. CASE Reply(s)
  BY <1>1, ReplyCarries
<1>2. CASE To(s, "spawn") /\ Hold(s, h)
  <2>1. \A k \in DOMAIN media : media[k].info \in Seq(Stream)
    BY DEF DInv, Shelved, MediaRow
  <2>2. \A row \in rows : row.info \in Seq(Stream)
    BY <2>1
  <2> HIDE DEF rows
  <2>3. HeldRow(h)
    BY <2>2, NothingHeld DEF HeldRow
  <2>4. held' = [held EXCEPT ![s] = h]
    BY <1>2 DEF Hold
  <2> HIDE DEF h
  <2>5. "spawn" \notin Late
    BY DEF Late
  <2> QED BY <1>2, <2>3, <2>4, <2>5, MovesOnCarries
<1> QED BY <1>1, <1>2 DEF ListMediaSources

LEMMA SpawnCarries ==
  ASSUME DInv, Typed, [Next]_vars, NEW s \in Slot, SpawnStrmProbe(s) PROVE Carrying'
<1>1. held' = held /\ To(s, "list")
  BY DEF SpawnStrmProbe
<1>2. "list" \notin Late
  BY DEF Late
<1> QED BY <1>1, <1>2, ToWaits, RestCarries

LEMMA JsonCarries ==
  ASSUME DInv, Typed, [Next]_vars, NEW s \in Slot, MediaSourceJson(s) PROVE Carrying'
<1>1. PICK row \in held[s].rows :
        \/ Reply(s)
        \/ Hold(s, [held[s] EXCEPT !.rows = @ \ {row}]) /\ UNCHANGED req
  BY DEF MediaSourceJson
<1>2. CASE Reply(s)
  BY <1>2, ReplyCarries
<1>3. CASE Hold(s, [held[s] EXCEPT !.rows = @ \ {row}]) /\ UNCHANGED req
  <2> DEFINE h == [held[s] EXCEPT !.rows = held[s].rows \ {row}]
  <2>1. held' = [held EXCEPT ![s] = h] /\ req' = [req EXCEPT ![s] = req[s]]
    BY <1>3 DEF Hold, Typed
  <2>2. req[s].at = "list" /\ HeldRow(held[s])
    BY DEF MediaSourceJson, Handles, DInv, Carrying, Carries
  <2>3. h.rows = held[s].rows \ {row} /\ DOMAIN h = DOMAIN held[s]
    BY <2>2 DEF HeldRow
  <2>4. HeldRow(h)
    <3> HIDE DEF h
    <3> QED BY <2>2, <2>3 DEF HeldRow
  <2> HIDE DEF h
  <2>5. PICK x, y : x = h /\ y = req[s]
    OBVIOUS
  <2>6. Carries(x, y)'
    BY <2>2, <2>4, <2>5 DEF Carries, HeldRow
  <2> QED BY <2>1, <2>5, <2>6, AloneCarries
<1> QED BY <1>1, <1>2, <1>3

LEMMA DeliverCarries ==
  ASSUME DInv, Typed, [Next]_vars, NEW s \in Slot, NEW k, NEW range \in Ranges, NEW r \in ReqType,
         r.route = "Video", Deliver(s, k, range, r)
  PROVE  Carrying'
<1>1. CASE Reply(s)
  BY <1>1, ReplyCarries
<1>2. CASE k \in DOMAIN media
  <2> DEFINE film == Film[media[k].film]
             a == IF film.remote THEN [status |-> 307, got |-> <<>>] ELSE ServeLocalFile(range, film.size)
             size == IF film.remote THEN -1 ELSE film.size
             answered == [r EXCEPT !.at = "answered"]
  <2>0. PICK z, status, got : z = size /\ status = a.status /\ got = a.got
    OBVIOUS
  <2> DEFINE h == [Nothing EXCEPT !.media = k, !.range = range, !.size = z, !.status = status, !.got = got]
  <2>1. req' = [req EXCEPT ![s] = answered] /\ held' = [held EXCEPT ![s] = h]
    BY <1>2, <2>0 DEF Deliver, Hold
  <2>2. answered.route = "Video" /\ answered.at = "answered"
    BY DEF ReqType
  <2>3. media[k].film \in DOMAIN Film
    BY <1>2 DEF DInv, Shelved, MediaRow
  <2>4. film.size \in Nat /\ film.remote \in BOOLEAN /\ range \in RangeSet
    BY <2>3, PlaybackAssumption DEF RangeSet
  <2>5. size >= 0 => Served(a, range, size)
    <3>1. CASE film.remote
      BY <3>1
    <3>2. CASE ~ film.remote
      <4>1. size = film.size /\ a = ServeLocalFile(range, film.size)
        BY <3>2
      <4>2. Served(ServeLocalFile(range, film.size), range, film.size)
        <5> HIDE DEF film
        <5> QED BY <2>4, ServedIsWanted
      <4> QED BY <4>1, <4>2
    <3> QED BY <3>1, <3>2
  <2> HIDE DEF film, a, size
  <2>6. HeldRow(h) /\ h.range = range /\ h.size = z /\ h.status = status /\ h.got = got
    BY DEF HeldRow, Nothing
  <2> HIDE DEF h, answered
  <2>7. h.size >= 0 => Served(h, h.range, h.size)
    BY <2>0, <2>5, <2>6 DEF Served
  <2>8. PICK x, y : x = h /\ y = answered
    OBVIOUS
  <2>9. Carries(x, y)'
    BY <2>2, <2>6, <2>7, <2>8 DEF Carries, HeldRow
  <2> QED BY <2>1, <2>8, <2>9, AloneCarries
<1> QED BY <1>1, <1>2 DEF Deliver

LEMMA FindCarries ==
  ASSUME DInv, Typed, [Next]_vars, NEW s \in Slot, NEW k, FindMedia(s, k) PROVE Carrying'
<1>1. CASE Reply(s)
  BY <1>1, ReplyCarries
<1>2. CASE k \in DOMAIN media
  <2>1. PICK l \in listed : To(s, "subtitle") /\ Hold(s, [Nothing EXCEPT !.media = k, !.place = l.place])
    BY <1>2 DEF FindMedia
  <2>2. PICK place \in Nat : place = l.place
    BY DEF DInv, ListedStands
  <2> DEFINE h == [Nothing EXCEPT !.media = k, !.place = place]
             r == [req[s] EXCEPT !.at = "subtitle"]
  <2>3. held' = [held EXCEPT ![s] = h] /\ req' = [req EXCEPT ![s] = r] /\ req[s] \in ReqType
    BY <2>1, <2>2 DEF Hold, To, Typed
  <2>4. r.at = "subtitle"
    BY <2>3 DEF ReqType
  <2>5. HeldRow(h) /\ h.media = k /\ h.place = place
    BY NothingHeld
  <2>6. k \in 1 .. nextMedia' - 1
    <3>1. nextMedia' = nextMedia
      BY DEF FindMedia, play
    <3> QED BY <1>2, <3>1 DEF DInv, Shelved
  <2> HIDE DEF h, r
  <2>7. PICK x, y : x = h /\ y = r
    OBVIOUS
  <2>8. Carries(x, y)'
    BY <2>4, <2>5, <2>6, <2>7 DEF Carries, HeldRow, Placed
  <2> QED BY <2>3, <2>7, <2>8, AloneCarries
<1> QED BY <1>1, <1>2 DEF FindMedia

LEMMA PlayCarries ==
  ASSUME DInv, Typed, [Next]_vars, NEW s \in Slot, PlaySubtitle(s) PROVE Carrying'
<1> DEFINE row == RowAt(held[s].media, held[s].place)
<1>1. CASE row = <<>>
  <2>1. Reply(s)
    BY <1>1 DEF PlaySubtitle
  <2> QED BY <2>1, ReplyCarries
<1>2. CASE row # <<>>
  <2> DEFINE h == [held[s] EXCEPT !.got = row, !.status = 200]
             r == [req[s] EXCEPT !.at = "answered"]
  <2>1. held' = [held EXCEPT ![s] = h] /\ req' = [req EXCEPT ![s] = r]
    BY <1>2 DEF PlaySubtitle, Hold, To
  <2>2. req[s] \in ReqType /\ req[s].at = "subtitle" /\ req[s].route = "Subtitle"
    BY DEF PlaySubtitle, Handles, Typed
  <2>3. r.at = "answered" /\ r.route = "Subtitle"
    BY <2>2 DEF ReqType
  <2>4. HeldRow(held[s]) /\ Placed(held[s])
    BY <2>2 DEF DInv, Carrying, Carries
  <2>5. UNCHANGED <<media, subs, nextMedia, leaving, cut, listed>>
    BY DEF PlaySubtitle, play, scan
  <2>6. PICK k, p : k = held[s].media /\ p = held[s].place
    OBVIOUS
  <2>7. k \in DOMAIN subs /\ p + 1 \in DOMAIN subs[k] /\ row = <<subs[k][p + 1]>>
    BY <1>2, <2>6 DEF RowAt
  <2>8. PICK f : f = subs[k][p + 1]
    OBVIOUS
  <2>9. subs[k] # <<>> /\ Stands(k, p, f)
    BY <2>7, <2>8 DEF Stands
  <2>10. \A l \in listed : l.media = k /\ l.place = p => l.file = f \/ l.media \in cut
    BY <2>7, <2>8, <2>9 DEF DInv, ListedStands, Stands, Shelved
  <2>11. HeldRow(h) /\ h.got = <<f>> /\ h.media = k /\ h.place = p
    <3>1. DOMAIN h = DOMAIN held[s] /\ h.rows = held[s].rows /\ h.media = k /\ h.place = p
      BY <2>6
    <3>2. h.got = row
      BY <2>4 DEF HeldRow
    <3> HIDE DEF h, row
    <3> QED BY <2>4, <2>7, <2>8, <3>1, <3>2 DEF HeldRow
  <2> HIDE DEF h, r
  <2>12. PICK x, y : x = h /\ y = r
    OBVIOUS
  <2>13. Stands(k, p, f)'
    BY <2>5, <2>9 DEF Stands
  <2>14. GaveFile(x)'
    <3>1. Placed(x)'
      BY <2>4, <2>5, <2>6, <2>11, <2>12 DEF Placed
    <3> QED BY <2>5, <2>10, <2>11, <2>12, <2>13, <3>1 DEF GaveFile
  <2>15. Carries(x, y)'
    BY <2>3, <2>11, <2>12, <2>14 DEF Carries, HeldRow
  <2> QED BY <2>1, <2>12, <2>15, AloneCarries
<1> QED BY <1>1, <1>2

LEMMA CarryingKept ==
  ASSUME DInv, Typed, [Next]_vars PROVE Carrying'
<1>1. ASSUME NEW s \in Slot,
             \/ \E i \in Item : ListMediaSources(s, i)
             \/ SpawnStrmProbe(s) \/ MediaSourceJson(s)
             \/ \E k \in 1 .. MaxMedia : FindMedia(s, k)
             \/ PlaySubtitle(s)
      PROVE  Carrying'
  BY <1>1, ListCarries, SpawnCarries, JsonCarries, FindCarries, PlayCarries
<1>2. ASSUME NEW s \in Slot, NEW k, NEW range \in Ranges, PlayVideo(s, k, range) PROVE Carrying'
  <2>1. req[s] \in ReqType /\ req[s].route = "Video" /\ Deliver(s, k, range, req[s])
    BY <1>2 DEF PlayVideo, Handles, Typed
  <2> QED BY <2>1, DeliverCarries
<1>3. ASSUME NEW s \in Slot, NEW k, NEW range \in Ranges, TicketPlay(s, k, range) PROVE Carrying'
  <2>1. PICK r : r = [Idle EXCEPT !.route = "Video"]
    OBVIOUS
  <2>2. r \in ReqType /\ r.route = "Video"
    BY <2>1 DEF Idle, ReqType, At, Kinds, Routes
  <2>3. Deliver(s, k, range, r)
    BY <1>3, <2>1 DEF TicketPlay
  <2> QED BY <2>2, <2>3, DeliverCarries
<1>4. ASSUME NEW s \in Slot, Leave(s) PROVE Carrying'
  BY <1>4, ReplyCarries DEF Leave
<1>5. ASSUME NEW s \in Slot, Drop(s) PROVE Carrying'
  <2>1. Reply(s)
    BY <1>5 DEF Drop, GiveUp, Reply
  <2> QED BY <2>1, ReplyCarries
<1>6. ASSUME NEW s \in Slot, NEW t, NEW route, Ask(s, t, route), UNCHANGED held PROVE Carrying'
  BY <1>6, AskWaits, RestCarries
<1>7. CASE AccessNext /\ UNCHANGED held
  BY <1>7, AccessWaits, RestCarries
<1>8. CASE Stop
  <2>1. held' = [s \in Slot |-> Nothing] /\ req' = [s \in Slot |-> Idle]
    BY <1>8 DEF Stop, Restart
  <2>2. Carries(Nothing, Idle)'
    BY NothingHeld DEF Carries, Idle
  <2> QED BY <2>1, <2>2 DEF Carrying
<1>9. CASE \/ \E k \in 1 .. MaxMedia : ProbeMediaSource(k) \/ ProbeEnds(k)
           \/ \E i \in Item : DropSubtitles(i)
           \/ \E k \in 1 .. MaxMedia : DetectDeletion(k)
           \/ DropSources \/ ScanFails
           \/ \E f \in DOMAIN Film : InsertSource(f)
           \/ \E k \in 1 .. MaxMedia, f \in SubFile : AttachSubtitle(k, f)
           \/ UNCHANGED vars
  <2>1. Waiting
    BY <1>9 DEF ProbeMediaSource, ProbeEnds, DropSubtitles, DetectDeletion, DropSources, InsertSource, ScanFails, AttachSubtitle, vars, Waiting
  <2> QED BY <2>1, RestCarries
<1> QED BY <1>1, <1>2, <1>3, <1>4, <1>5, <1>6, <1>7, <1>8, <1>9 DEF Next

LEMMA DInvInit == Init => DInv
<1> SUFFICES ASSUME Init PROVE DInv
  OBVIOUS
<1>1. ASSUME NEW k \in DOMAIN First
      PROVE  First[k][1] \in Item /\ First[k][2] \in DOMAIN Film /\ First[k][3] \in Seq(SubFile)
  <2>1. First[k] \in Item \X (DOMAIN Film) \X Seq(SubFile)
    BY PlaybackAssumption
  <2> QED BY <2>1
<1>2. Len(First) \in Nat /\ DOMAIN First = 1 .. Len(First)
  BY PlaybackAssumption
<1>3. <<>> \in Seq(Stream)
  OBVIOUS
<1>4. DOMAIN media = DOMAIN First /\ \A k \in DOMAIN media : media[k] \in MediaRow
  BY <1>1, <1>3 DEF Init, Row, MediaRow
<1>5. DOMAIN subs = DOMAIN First /\ \A k \in DOMAIN subs : subs[k] \in Seq(SubFile)
  BY <1>1 DEF Init
<1>6. Shelved
  BY <1>2, <1>4, <1>5 DEF Init, Shelved
<1>7. ListedStands
  BY DEF Init, ListedStands
<1>8. Carrying
  <2>1. held = [s \in Slot |-> Nothing] /\ req = [s \in Slot |-> Idle]
    BY DEF Init, InitAccess
  <2>2. Carries(Nothing, Idle)
    BY NothingHeld DEF Carries, Idle
  <2> QED BY <2>1, <2>2 DEF Carrying
<1> QED BY <1>6, <1>7, <1>8 DEF DInv

-----------------------------------------------------------------------------
(***************************************************************************)
(* The theorems.                                                           *)
(***************************************************************************)

(* The invariant holds in every state. *)
LEMMA Invariance == Spec => []IInv
<1>1. IInv /\ [Next]_vars => IInv'
  BY TypedKept, GrantedKept, OneByOneKept, ProbedKept DEF IInv
<1> QED BY <1>1, InitHolds, PTL DEF Spec

(* No handler is run for a token that was already revoked, or whose user was
   disabled, when its request came: for any number of tokens and requests at a
   time, and whatever the cache forgets or keeps (auth_guard). *)
THEOREM NoStaleGrant == Spec => []GrantIsValid
<1>1. IInv => GrantIsValid
  BY DEF IInv, Granted, GrantIsValid, Looking, GuardStep
<1> QED BY <1>1, Invariance, PTL

(* Where the logins of an address do not overlap its failures are counted one
   by one and never exceed the limit, for every limit and number of addresses
   (login_fail_allowed, login_fail_record, login_fail_clear). *)
THEOREM NoFailureLost == Spec => []FailuresCounted
<1>1. IInv => FailuresCounted
  BY DEF IInv, OneByOne, FailuresCounted
<1> QED BY <1>1, Invariance, PTL

(* The streams a background probe found stay, unless a probe that was begun
   from an older listing fails after it (spawn_strm_probe, STRM_PROBING). *)
THEOREM StreamsKept == Spec => InfoIsKept
<1>1. IInv /\ [Next]_vars =>
        [\A k \in DOMAIN media \cap DOMAIN media' : media[k].info # <<>> /\ media'[k].info = <<>> => k \in stale]_vars
  BY StreamsStay DEF IInv
<1> QED BY <1>1, Invariance, PTL DEF Spec, InfoIsKept

(* A subtitle that a client fetches is the file its listing named or nothing,
   unless a scan was cut off between deleting the subtitles of that source and
   the source itself; and a local video is answered with exactly the bytes its
   Range asks for: for any files, streams, ranges and requests at a time,
   whatever a scan attaches, replaces or removes or a probe writes meanwhile
   (media_sources_json, play_subtitle, parse_range, serve_local_file,
   upsert_media_source, detect_deletions). *)
THEOREM DeliveredAlways == Spec => []DeliveredExactly
<1>1. Typed /\ DInv /\ [Next]_vars => DInv'
  BY ShelvedKept, ListedKept, CarryingKept DEF DInv
<1>2. DInv => DeliveredExactly
  <2> SUFFICES ASSUME DInv PROVE DeliveredExactly
    OBVIOUS
  <2>1. SubtitleIsTheOneListed
    <3>1. \A l \in listed : l.others = 1
      BY DEF DInv, ListedStands
    <3>2. ASSUME NEW s \in Slot, Handles(s, "answered", "Subtitle") PROVE GaveFile(held[s])
      BY <3>2 DEF Handles, DInv, Carrying, Carries
    <3> QED BY <3>1, <3>2 DEF SubtitleIsTheOneListed, GaveFile
  <2>2. RangeIsExact
    <3>1. ASSUME NEW s \in Slot, Handles(s, "answered", "Video"), held[s].size >= 0
          PROVE  Served(held[s], held[s].range, held[s].size)
      BY <3>1 DEF Handles, DInv, Carrying, Carries
    <3> QED BY <3>1 DEF RangeIsExact, Served
  <2> QED BY <2>1, <2>2 DEF DeliveredExactly
<1>3. IInv => Typed
  BY DEF IInv
<1> QED BY <1>1, <1>2, <1>3, Invariance, DInvInit, PTL DEF Spec
=============================================================================
