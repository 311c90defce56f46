--------------------------- MODULE SessionRotation ---------------------------
(***************************************************************************)
(* The sessions of one user: the rows of `refresh_tokens`, the cookie each *)
(* browser holds, and the requests that read and write them: signup,       *)
(* login, refresh, logout, and the reset of a password by an emailed link. *)
(* Users share no row, so one is enough.                                   *)
(*                                                                         *)
(* None of these requests runs in a database transaction.  Each query of   *)
(* RefreshTokenService and AuthService is one action, and between two of   *)
(* them other requests run, time passes, or the request dies.              *)
(*                                                                         *)
(* A session is a login together with the chain of rotations that follow:  *)
(* root[k] is the first token of the chain k belongs to.                   *)
(***************************************************************************)
EXTENDS Naturals, FiniteSets

CONSTANTS
  Browsers,   \* cookie jars of the user
  Requests,   \* requests the server works on at a time
  Links,      \* password reset links that are ever requested
  MaxTokens,  \* bound: refresh tokens that are ever issued
  NoToken,    \* no cookie, and a null replacedByTokenId
  NoBrowser,
  NoLink

Tokens == 1..MaxTokens        \* in the order of their creation

ASSUME SessionAssumption ==
  /\ IsFiniteSet(Requests)
  /\ MaxTokens \in Nat
  /\ NoToken \notin Nat
  /\ NoBrowser \notin Browsers
  /\ NoLink \notin Links

VARIABLES
  password,  \* version of passwordHash; 0 while the user has no row
  link,      \* reset link -> "none", "sent", or "spent": used or expired
  issued,    \* tokens created so far
  state,     \* token -> "none", "live", "expired", "recent" or "old"
  next,      \* token -> replacedByTokenId
  jar,       \* browser -> its refresh_token cookie
  call,      \* request -> what it has done and read so far
  \* history, which no action reads
  root,      \* token -> the token its session began with
  proof,     \* token -> the password version its session was opened with
  ended,     \* sessions that a logout, a reset or an alarm has ended
  late,      \* sessions whose browser missed a rotation for 10 s
  overlap,   \* requests that were about to issue a token when they were ended
  escaped,   \* sessions continued by such a request
  forked,    \* sessions with a rotation that raced another, or died half-way
  torn       \* the reset that died before it had ended the sessions, if none has since

rows  == <<issued, state, next, root, proof>>
ghosts == <<ended, late, overlap, escaped, forked, torn>>
vars  == <<password, link, rows, jar, call, ghosts>>

\* "expired" is not revoked, and past expiresAt.  "recent" and "old" are
\* revoked: "recent" for less than REUSE_GRACE_WINDOW_MS.
TokenStates == {"none", "live", "expired", "recent", "old"}
Stages == {"idle", "enroll", "issue", "refresh", "walk", "create", "update",
           "alarm", "answer", "logout", "clear", "mark", "write", "revokeAll"}

Call == [at : Stages, who : Browsers \cup {NoBrowser}, given : Tokens \cup {NoToken},
         row : Tokens \cup {NoToken}, new : Tokens \cup {NoToken},
         read : Nat, link : Links \cup {NoLink}]

Idle == [at |-> "idle", who |-> NoBrowser, given |-> NoToken, row |-> NoToken,
         new |-> NoToken, read |-> 0, link |-> NoLink]

TypeOK ==
  /\ password \in Nat
  /\ link \in [Links -> {"none", "sent", "spent"}]
  /\ issued \in 0..MaxTokens
  /\ state \in [Tokens -> TokenStates]
  /\ next \in [Tokens -> Tokens \cup {NoToken}]
  /\ jar \in [Browsers -> Tokens \cup {NoToken}]
  /\ call \in [Requests -> Call]
  /\ root \in [Tokens -> Tokens]
  /\ proof \in [Tokens -> Nat]
  /\ ended \subseteq Tokens
  /\ late \subseteq Tokens
  /\ overlap \subseteq Requests
  /\ escaped \subseteq Tokens
  /\ forked \subseteq Tokens
  /\ torn \subseteq Requests

Init ==
  /\ password = 0
  /\ link = [l \in Links |-> "none"]
  /\ issued = 0
  /\ state = [k \in Tokens |-> "none"]
  /\ next = [k \in Tokens |-> NoToken]
  /\ jar = [b \in Browsers |-> NoToken]
  /\ call = [q \in Requests |-> Idle]
  /\ root = [k \in Tokens |-> k]
  /\ proof = [k \in Tokens |-> 0]
  /\ ended = {}
  /\ late = {}
  /\ overlap = {}
  /\ escaped = {}
  /\ forked = {}
  /\ torn = {}

-----------------------------------------------------------------------------
(* Helpers *)

At(q, s) == call[q].at = s
In(s) == {q \in Requests : At(q, s)}
Goto(q, s) == call' = [call EXCEPT ![q].at = s]
\* what a request still needs of what it has read: its browser, and row k
Keeps(q, s, k) ==
  call' = [call EXCEPT ![q] = [Idle EXCEPT !.at = s, !.who = call[q].who, !.row = k]]
Ends(q) == call' = [call EXCEPT ![q] = Idle] /\ overlap' = overlap \ {q}

HasAccount == password # 0
Unrevoked(k) == state[k] \in {"live", "expired"}
Revoked(k) == state[k] \in {"recent", "old"}
Live(s) == {k \in Tokens : state[k] = "live" /\ root[k] = s}
OthersOf(k) == {j \in Tokens \ {k} : root[j] = root[k] /\ Unrevoked(j)}
Sessions == {root[k] : k \in 1..issued}

\* bound: no request that would issue a token is sent once there is none left
MayIssue == issued < MaxTokens

\* refreshToken.create.  Bound: once MaxTokens are issued it never returns.
CreateToken(q, r, p) ==
  LET n == issued + 1 IN
  /\ n <= MaxTokens
  /\ issued' = n
  /\ state' = [state EXCEPT ![n] = "live"]
  /\ root' = [root EXCEPT ![n] = r]
  /\ proof' = [proof EXCEPT ![n] = p]
  /\ escaped' = IF q \in overlap THEN escaped \cup {r} ELSE escaped

\* mutant: update instead of updateMany
revokeAllForUser_OneRow ==
  /\ state' = [k \in Tokens |-> IF Unrevoked(k) /\ \A j \in Tokens : j < k => ~ Unrevoked(j)
                                THEN "recent" ELSE state[k]]
  /\ ended' = ended \cup Sessions
  /\ overlap' = overlap \cup In("create") \cup In("issue")

revokeAllForUser ==
  /\ state' = [k \in Tokens |-> IF Unrevoked(k) THEN "recent" ELSE state[k]]
  /\ ended' = ended \cup Sessions
  /\ overlap' = overlap \cup In("create") \cup In("issue")

-----------------------------------------------------------------------------
(* Signup and login.  Both end in issueSession and setRefreshCookie. *)

Signup(q, b) ==
  /\ At(q, "idle") /\ MayIssue
  /\ ~ HasAccount                                   \* else 409
  /\ call' = [call EXCEPT ![q] = [Idle EXCEPT !.at = "enroll", !.who = b]]
  /\ UNCHANGED <<password, link, rows, jar, ghosts>>

\* users.email is unique: the second of two create calls throws
CreateUser(q) ==
  /\ At(q, "enroll")
  /\ IF HasAccount
     THEN Ends(q) /\ UNCHANGED password
     ELSE /\ password' = 1
          /\ call' = [call EXCEPT ![q].at = "issue", ![q].read = 1]
          /\ UNCHANGED overlap
  /\ UNCHANGED <<link, rows, jar, ended, late, escaped, forked, torn>>

\* findUnique reads the hash; argon2.verify then takes its time
Login(q, b) ==
  /\ At(q, "idle") /\ MayIssue
  /\ HasAccount
  /\ call' = [call EXCEPT ![q] = [Idle EXCEPT !.at = "issue", !.who = b,
                                              !.read = password]]
  /\ UNCHANGED <<password, link, rows, jar, ghosts>>

issueSession(q) ==
  /\ At(q, "issue")
  /\ CreateToken(q, issued + 1, call[q].read)
  /\ call' = [call EXCEPT ![q] = [Idle EXCEPT !.at = "answer", !.who = call[q].who,
                                              !.new = issued + 1]]
  /\ UNCHANGED <<password, link, next, jar, ended, late, overlap, forked, torn>>

-----------------------------------------------------------------------------
(* POST /auth/refresh *)

SendRefresh(q, b) ==
  /\ At(q, "idle") /\ MayIssue
  /\ jar[b] # NoToken
  /\ call' = [call EXCEPT ![q] = [Idle EXCEPT !.at = "refresh", !.who = b,
                                              !.given = jar[b]]]
  /\ UNCHANGED <<password, link, rows, jar, ghosts>>

\* mutant: a row is only followed for one step
Follow_OneHop(q, k) ==
  IF next[k] # NoToken /\ k = call[q].given
  THEN call' = [call EXCEPT ![q].at = "walk", ![q].row = next[k]]
  ELSE IF Revoked(k)
  THEN Goto(q, "alarm")
  ELSE Keeps(q, "create", k)

\* One turn of findLiveDescendant, on a row that was just read.  A successor
\* is younger than the row it replaces, so no row is visited twice.
Follow(q, k) ==
  IF next[k] # NoToken
  THEN call' = [call EXCEPT ![q].at = "walk", ![q].row = next[k]]
  ELSE IF Revoked(k)
  THEN Goto(q, "alarm")
  ELSE Keeps(q, "create", k)

verifyAndRotate(q) ==
  LET k == call[q].given IN
  /\ At(q, "refresh")
  /\ \/ /\ state[k] = "recent"
        /\ Follow(q, k)
        /\ UNCHANGED overlap
     \/ /\ state[k] = "old"
        /\ Goto(q, "alarm")
        /\ UNCHANGED overlap
     \/ /\ state[k] = "expired"                     \* 401
        /\ Ends(q)
     \/ /\ state[k] = "live"
        /\ Keeps(q, "create", k)
        /\ UNCHANGED overlap
  /\ UNCHANGED <<password, link, rows, jar, ended, late, escaped, forked, torn>>

findLiveDescendant(q) ==
  /\ At(q, "walk")
  /\ Follow(q, call[q].row)
  /\ UNCHANGED <<password, link, rows, jar, ghosts>>

\* rotate, its first query
RotateCreates(q) ==
  LET k == call[q].row IN
  /\ At(q, "create")
  /\ CreateToken(q, root[k], proof[k])
  /\ call' = [call EXCEPT ![q].at = "update", ![q].new = issued + 1]
  /\ UNCHANGED <<password, link, next, jar, ended, late, overlap, forked, torn>>

\* mutant: the old row is chained to the new one but not revoked
RotateUpdates_KeepsLive(q) ==
  LET k == call[q].row IN
  /\ At(q, "update")
  /\ next' = [next EXCEPT ![k] = call[q].new]
  /\ forked' = IF Revoked(k) THEN forked \cup {root[k]} ELSE forked
  /\ call' = [call EXCEPT ![q].at = "answer", ![q].row = NoToken]
  /\ UNCHANGED <<password, link, issued, state, root, proof, jar,
                 ended, late, overlap, escaped, torn>>

\* rotate, its second query: an update by id, whatever has become of the row
RotateUpdates(q) ==
  LET k == call[q].row IN
  /\ At(q, "update")
  /\ state' = [state EXCEPT ![k] = "recent"]
  /\ next' = [next EXCEPT ![k] = call[q].new]
  /\ forked' = IF Revoked(k) THEN forked \cup {root[k]} ELSE forked
  /\ call' = [call EXCEPT ![q].at = "answer", ![q].row = NoToken]
  /\ UNCHANGED <<password, link, issued, root, proof, jar,
                 ended, late, overlap, escaped, torn>>

\* no live descendant: every session of the user ends, and a 401
Alarm(q) ==
  /\ At(q, "alarm")
  /\ revokeAllForUser
  /\ call' = [call EXCEPT ![q] = Idle]
  /\ UNCHANGED <<password, link, issued, next, root, proof, jar,
                 late, escaped, forked, torn>>

\* the answer of signup, login and refresh reaches the browser
SetCookie(q) ==
  /\ At(q, "answer")
  /\ jar' = [jar EXCEPT ![call[q].who] = call[q].new]
  /\ Ends(q)
  /\ UNCHANGED <<password, link, rows, ended, late, escaped, forked, torn>>

-----------------------------------------------------------------------------
(* POST /profile/logout *)

SendLogout(q, b) ==
  /\ At(q, "idle")
  /\ jar[b] # NoToken
  /\ call' = [call EXCEPT ![q] = [Idle EXCEPT !.at = "logout", !.who = b,
                                              !.given = jar[b]]]
  /\ UNCHANGED <<password, link, rows, jar, ghosts>>

\* mutant: the token does not reach the handler, which revokes nothing
revoke_NoCookie(q) ==
  LET k == call[q].given
      s == root[k]
  IN
  /\ At(q, "logout")
  /\ ended' = ended \cup {s}
  /\ escaped' = IF OthersOf(k) = {} THEN escaped ELSE escaped \cup {s}
  /\ overlap' = overlap \cup {c \in In("create") : root[call[c].row] = s}
  /\ Keeps(q, "clear", NoToken)
  /\ UNCHANGED <<password, link, issued, state, next, root, proof, jar,
                 late, forked, torn>>

revoke(q) ==
  LET k == call[q].given
      s == root[k]
  IN
  /\ At(q, "logout")
  /\ state' = IF Unrevoked(k) THEN [state EXCEPT ![k] = "recent"] ELSE state
  /\ ended' = ended \cup {s}
  /\ escaped' = IF OthersOf(k) = {} THEN escaped ELSE escaped \cup {s}
  /\ overlap' = overlap \cup {c \in In("create") : root[call[c].row] = s}
  /\ Keeps(q, "clear", NoToken)
  /\ UNCHANGED <<password, link, issued, next, root, proof, jar,
                 late, forked, torn>>

ClearCookie(q) ==
  /\ At(q, "clear")
  /\ jar' = [jar EXCEPT ![call[q].who] = NoToken]
  /\ Ends(q)
  /\ UNCHANGED <<password, link, rows, ended, late, escaped, forked, torn>>

-----------------------------------------------------------------------------
(* POST /auth/forgot-password and /auth/reset-password *)

requestPasswordReset(l) ==
  /\ HasAccount
  /\ link[l] = "none"
  /\ link' = [link EXCEPT ![l] = "sent"]
  /\ UNCHANGED <<password, rows, jar, call, ghosts>>

\* consumePasswordResetToken reads the link ...
resetPassword(q, l) ==
  /\ At(q, "idle")
  /\ link[l] = "sent"                               \* else 401
  /\ call' = [call EXCEPT ![q] = [Idle EXCEPT !.at = "mark", !.link = l]]
  /\ UNCHANGED <<password, link, rows, jar, ghosts>>

\* ... and marks it, by id
MarkUsed(q) ==
  /\ At(q, "mark")
  /\ link' = [link EXCEPT ![call[q].link] = "spent"]
  /\ Keeps(q, "write", NoToken)
  /\ UNCHANGED <<password, rows, jar, ghosts>>

WritePassword(q) ==
  /\ At(q, "write")
  /\ password' = password + 1
  /\ Goto(q, "revokeAll")
  /\ UNCHANGED <<link, rows, jar, ghosts>>

EndSessions(q) ==
  /\ At(q, "revokeAll")
  /\ revokeAllForUser
  /\ torn' = {}
  /\ call' = [call EXCEPT ![q] = Idle]
  /\ UNCHANGED <<password, link, issued, next, root, proof, jar,
                 late, escaped, forked>>

-----------------------------------------------------------------------------
(* Time and failures *)

\* 10 s after its revocation a token leaves the grace window.  A session is
\* late when the token is then still in a jar or on its way to or from one.
\* Windows close in any order, those the clock allows included.
WindowCloses(k) ==
  /\ state[k] = "recent"
  /\ state' = [state EXCEPT ![k] = "old"]
  /\ late' = IF \/ \E b \in Browsers : jar[b] = k
                \/ \E q \in Requests : At(q, "refresh") /\ call[q].given = k
                \/ \E q \in Requests : call[q].new = k
             THEN late \cup {root[k]}
             ELSE late
  /\ UNCHANGED <<password, link, issued, next, root, proof, jar, call,
                 ended, overlap, escaped, forked, torn>>

\* A token lives for 30 days: its session has not rotated for as long, and
\* no request that works on it began before.
TokenExpires(k) ==
  /\ state[k] = "live"
  /\ \A q \in Requests : k \notin {call[q].row, call[q].new}
  /\ \A p \in Tokens : root[p] = root[k] => state[p] # "recent"
  /\ state' = [state EXCEPT ![k] = "expired"]
  /\ UNCHANGED <<password, link, issued, next, root, proof, jar, call, ghosts>>

LinkExpires(l) ==
  /\ link[l] = "sent"
  /\ link' = [link EXCEPT ![l] = "spent"]
  /\ UNCHANGED <<password, rows, jar, call, ghosts>>

\* The process stops, a query fails, or the answer is lost.
Dies(q) ==
  /\ ~ At(q, "idle")
  /\ Ends(q)
  /\ forked' = IF At(q, "update") THEN forked \cup {root[call[q].row]} ELSE forked
  /\ torn' = IF At(q, "revokeAll") THEN {q} ELSE torn
  /\ UNCHANGED <<password, link, rows, jar, ended, late, escaped>>

-----------------------------------------------------------------------------

\* what the server does with a request it has
Serves(q) ==
  \/ CreateUser(q) \/ issueSession(q)
  \/ verifyAndRotate(q) \/ findLiveDescendant(q)
  \/ RotateCreates(q) \/ RotateUpdates(q) \/ Alarm(q)
  \/ SetCookie(q) \/ revoke(q) \/ ClearCookie(q)
  \/ MarkUsed(q) \/ WritePassword(q) \/ EndSessions(q)

Sends(q) ==
  \/ \E b \in Browsers :
       Signup(q, b) \/ Login(q, b) \/ SendRefresh(q, b) \/ SendLogout(q, b)
  \/ \E l \in Links : resetPassword(q, l)

Environment ==
  \/ \E l \in Links : requestPasswordReset(l) \/ LinkExpires(l)
  \/ \E k \in Tokens : WindowCloses(k) \/ TokenExpires(k)
  \/ \E q \in Requests : Dies(q)

Next == (\E q \in Requests : Serves(q) \/ Sends(q)) \/ Environment

Spec == Init /\ [][Next]_vars

-----------------------------------------------------------------------------
(* Properties *)

(***************************************************************************)
(* Reuse detection is not tripped by a race of the user's own tabs (the    *)
(* comment of REUSE_GRACE_WINDOW_MS): a request only raises the alarm for  *)
(* a session that was ended on purpose, or whose browser was more than     *)
(* 10 s behind a rotation.                                                 *)
(***************************************************************************)
NoFalseAlarm ==
  \A q \in In("alarm") : root[call[q].given] \in ended \cup late

(***************************************************************************)
(* A session that was ended stays ended: no token of it is live, unless a  *)
(* refresh of that very session overlapped the request that ended it.      *)
(***************************************************************************)
EndedStaysEnded ==
  \A k \in Tokens : state[k] = "live" /\ root[k] \in ended => root[k] \in escaped

(***************************************************************************)
(* Rotation replaces: a session has one live token, and one more for each  *)
(* rotation between its two queries.  Two rotations of the same row, and   *)
(* one that dies between the queries, are the exceptions.                  *)
(***************************************************************************)
OneLiveToken ==
  \A s \in Tokens \ forked :
    Cardinality(Live(s))
      <= 1 + Cardinality({q \in In("update") : root[call[q].row] = s})

(***************************************************************************)
(* After a password reset no session opened with an earlier password goes  *)
(* on, unless the reset is in its last step or died before it, or a login  *)
(* or refresh overlapped it.                                               *)
(***************************************************************************)
NothingOutlivesReset ==
  \A k \in Tokens : state[k] = "live" =>
    \/ proof[k] = password
    \/ In("revokeAll") \cup torn # {}
    \/ root[k] \in escaped

(***************************************************************************)
(* findLiveDescendant ends: each row it goes on to is younger than the one *)
(* it leaves, whatever other requests do to the chain meanwhile, so it     *)
(* never comes to a row a second time and `visited` never cuts it short.   *)
(***************************************************************************)
Standing(q) == IF At(q, "walk") THEN call[q].row ELSE call[q].given

WalkGoesForward ==
  [][\A q \in Requests :
       call'[q].at = "walk" /\ call'[q] # call[q]
         => call'[q].row > Standing(q)]_vars

=============================================================================
