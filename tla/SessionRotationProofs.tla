------------------------ MODULE SessionRotationProofs ------------------------
(***************************************************************************)
(* The properties of SessionRotation, for any number of browsers, requests,*)
(* links and tokens.  None is inductive by itself.  Chained (every chain   *)
(* leads to younger tokens of its session) carries the others: the session *)
(* a request has read about is then the session of the token it was given. *)
(***************************************************************************)
EXTENDS SessionRotation, FiniteSetTheorems, TLAPS

-----------------------------------------------------------------------------
(* Types *)

\* the tokens that a request must have by now
HoldsOf(q) ==
  /\ call[q].at \in {"refresh", "walk", "alarm", "logout"} => call[q].given \in Tokens
  /\ call[q].at \in {"walk", "create", "update"} => call[q].row \in Tokens
  /\ call[q].at \in {"update", "answer"} => call[q].new \in Tokens

Holding ==
  \A q \in Requests : HoldsOf(q)

LEMMA IdleIsCall == Idle \in Call
  BY DEF Idle, Call, Stages

LEMMA InitType == Init => TypeOK
  BY SessionAssumption, IdleIsCall DEF Init, TypeOK, Tokens, TokenStates

\* The updates of a request's record that the actions make.
LEMMA RecordUpdates ==
  ASSUME NEW c \in Call, NEW s \in Stages
  PROVE  /\ [c EXCEPT !.at = s] \in Call
         /\ \A w \in Browsers \cup {NoBrowser} :
              /\ [c EXCEPT !.at = s, !.who = w] \in Call
              /\ \A n \in Nat : [c EXCEPT !.at = s, !.who = w, !.read = n] \in Call
         /\ \A w \in Browsers \cup {NoBrowser}, k \in Tokens \cup {NoToken} :
              /\ [c EXCEPT !.at = s, !.who = w, !.given = k] \in Call
              /\ [c EXCEPT !.at = s, !.who = w, !.row = k] \in Call
              /\ [c EXCEPT !.at = s, !.who = w, !.new = k] \in Call
         /\ \A k \in Tokens \cup {NoToken} :
              /\ [c EXCEPT !.at = s, !.row = k] \in Call
              /\ [c EXCEPT !.at = s, !.new = k] \in Call
         /\ \A n \in Nat : [c EXCEPT !.at = s, !.read = n] \in Call
         /\ \A l \in Links : [c EXCEPT !.at = s, !.link = l] \in Call
<1> USE DEF Call
<1>1. [c EXCEPT !.at = s] \in Call
  OBVIOUS
<1>2. \A w \in Browsers \cup {NoBrowser} :
        /\ [c EXCEPT !.at = s, !.who = w] \in Call
        /\ \A n \in Nat : [c EXCEPT !.at = s, !.who = w, !.read = n] \in Call
  OBVIOUS
<1>3. \A w \in Browsers \cup {NoBrowser}, k \in Tokens \cup {NoToken} :
        /\ [c EXCEPT !.at = s, !.who = w, !.given = k] \in Call
        /\ [c EXCEPT !.at = s, !.who = w, !.row = k] \in Call
        /\ [c EXCEPT !.at = s, !.who = w, !.new = k] \in Call
  OBVIOUS
<1>4. \A k \in Tokens \cup {NoToken} :
        /\ [c EXCEPT !.at = s, !.row = k] \in Call
        /\ [c EXCEPT !.at = s, !.new = k] \in Call
  OBVIOUS
<1>5. /\ \A n \in Nat : [c EXCEPT !.at = s, !.read = n] \in Call
      /\ \A l \in Links : [c EXCEPT !.at = s, !.link = l] \in Call
  OBVIOUS
<1> QED BY <1>1, <1>2, <1>3, <1>4, <1>5

\* What the helpers leave of the type of `call`.
LEMMA GotoType ==
  ASSUME TypeOK, NEW q \in Requests, NEW s \in Stages, Goto(q, s)
  PROVE  call' \in [Requests -> Call]
  BY RecordUpdates DEF Goto, TypeOK

LEMMA KeepsType ==
  ASSUME TypeOK, NEW q \in Requests, NEW s \in Stages,
         NEW k \in Tokens \cup {NoToken}, Keeps(q, s, k)
  PROVE  call' \in [Requests -> Call]
<1>1. call[q].who \in Browsers \cup {NoBrowser}
  BY DEF TypeOK, Call
<1> QED BY <1>1, IdleIsCall, RecordUpdates DEF Keeps, TypeOK

LEMMA EndsType ==
  ASSUME TypeOK, NEW q \in Requests, Ends(q)
  PROVE  call' \in [Requests -> Call] /\ overlap' \subseteq Requests
  BY IdleIsCall DEF Ends, TypeOK

LEMMA FollowType ==
  ASSUME TypeOK, NEW q \in Requests, NEW k \in Tokens, Follow(q, k)
  PROVE  call' \in [Requests -> Call]
<1>1. {"walk", "alarm", "create"} \subseteq Stages
  BY DEF Stages
<1>2. CASE next[k] # NoToken
  <2>1. next[k] \in Tokens
    BY <1>2 DEF TypeOK
  <2>2. [call[q] EXCEPT !.at = "walk", !.row = next[k]] \in Call
    BY <1>1, <2>1, RecordUpdates DEF TypeOK
  <2> QED BY <1>2, <2>2 DEF Follow, TypeOK
<1>3. CASE next[k] = NoToken
  BY <1>1, <1>3, GotoType, KeepsType DEF Follow
<1> QED BY <1>2, <1>3

LEMMA CreateType ==
  ASSUME TypeOK, NEW q \in Requests, NEW r \in Tokens, NEW p \in Nat, CreateToken(q, r, p)
  PROVE  /\ issued + 1 \in Tokens
         /\ issued' \in 0..MaxTokens
         /\ state' \in [Tokens -> TokenStates]
         /\ root' \in [Tokens -> Tokens]
         /\ proof' \in [Tokens -> Nat]
         /\ escaped' \subseteq Tokens
<1>1. issued + 1 \in Tokens
  BY SessionAssumption DEF CreateToken, Tokens, TypeOK
<1>2. issued' \in 0..MaxTokens /\ escaped' \subseteq Tokens
  BY SessionAssumption DEF CreateToken, TypeOK
<1>3. /\ state' \in [Tokens -> TokenStates]
      /\ root' \in [Tokens -> Tokens]
      /\ proof' \in [Tokens -> Nat]
  BY <1>1 DEF CreateToken, TypeOK, TokenStates
<1> QED BY <1>1, <1>2, <1>3

LEMMA RevokeType ==
  ASSUME TypeOK, revokeAllForUser
  PROVE  /\ state' \in [Tokens -> TokenStates]
         /\ ended' \subseteq Tokens
         /\ overlap' \subseteq Requests
<1>1. \A k \in 1..issued : root[k] \in Tokens
  BY SessionAssumption DEF TypeOK, Tokens
<1>2. Sessions \subseteq Tokens
  BY <1>1 DEF Sessions
<1>3. ended' \subseteq Tokens
  BY <1>2 DEF revokeAllForUser, TypeOK
<1> QED BY <1>3 DEF revokeAllForUser, TypeOK, TokenStates, In

LEMMA ServesTypes ==
  ASSUME TypeOK, Holding, NEW q \in Requests, Serves(q)
  PROVE  TypeOK'
<1> USE DEF rows, ghosts
<1>t. call[q] \in Call
  BY DEF TypeOK
<1>s. {"issue", "create", "update", "answer", "alarm", "clear", "write", "revokeAll"} \subseteq Stages
  BY DEF Stages
<1>f. /\ call[q].who \in Browsers \cup {NoBrowser}
      /\ {call[q].given, call[q].row, call[q].new} \subseteq Tokens \cup {NoToken}
      /\ call[q].read \in Nat
  BY <1>t DEF Call
<1>1. CASE CreateUser(q)
  <2>1. [call[q] EXCEPT !.at = "issue", !.read = 1] \in Call
    BY <1>t, <1>s, RecordUpdates
  <2>2. call' \in [Requests -> Call] /\ overlap' \subseteq Requests
    BY <1>1, <2>1, EndsType DEF CreateUser, TypeOK
  <2> QED BY <1>1, <2>2 DEF TypeOK, CreateUser
<1>2. CASE issueSession(q)
  <2>1. issued + 1 \in Tokens
    BY <1>2, SessionAssumption DEF TypeOK, issueSession, CreateToken, Tokens
  <2>2. call' \in [Requests -> Call]
    BY <1>2, <1>s, <1>f, <2>1, IdleIsCall, RecordUpdates DEF TypeOK, issueSession
  <2> QED BY <1>2, <1>f, <2>1, <2>2, CreateType DEF TypeOK, issueSession
<1>3. CASE verifyAndRotate(q)
  <2>1. call[q].given \in Tokens
    BY <1>3 DEF verifyAndRotate, Holding, HoldsOf, At
  <2>2. call' \in [Requests -> Call] /\ overlap' \subseteq Requests
    BY <1>3, <1>s, <2>1, FollowType, GotoType, KeepsType, EndsType DEF verifyAndRotate, TypeOK
  <2> QED BY <1>3, <2>2 DEF TypeOK, verifyAndRotate
<1>4. CASE findLiveDescendant(q)
  BY <1>4, FollowType DEF TypeOK, findLiveDescendant, Holding, HoldsOf, At
<1>5. CASE RotateCreates(q)
  BY <1>5, <1>t, <1>s, <1>f, CreateType, RecordUpdates DEF TypeOK, RotateCreates, Holding, HoldsOf, At
<1>6. CASE RotateUpdates(q)
  BY <1>6, <1>t, <1>s, <1>f, RecordUpdates DEF TypeOK, RotateUpdates, TokenStates, Holding, HoldsOf, At
<1>7. CASE Alarm(q)
  BY <1>7, IdleIsCall, RevokeType DEF TypeOK, Alarm
<1>8. CASE SetCookie(q)
  BY <1>8, <1>f, EndsType DEF TypeOK, SetCookie, Holding, HoldsOf, At
<1>9. CASE revoke(q)
  BY <1>9, <1>s, <1>f, KeepsType DEF TypeOK, revoke, TokenStates, In, Holding, HoldsOf, At
<1>10. CASE ClearCookie(q)
  BY <1>10, EndsType DEF TypeOK, ClearCookie
<1>11. CASE MarkUsed(q)
  BY <1>11, <1>s, KeepsType DEF TypeOK, MarkUsed
<1>12. CASE WritePassword(q)
  BY <1>12, <1>s, GotoType DEF TypeOK, WritePassword
<1>13. CASE EndSessions(q)
  BY <1>13, IdleIsCall, RevokeType DEF TypeOK, EndSessions
<1> QED
  BY <1>1, <1>2, <1>3, <1>4, <1>5, <1>6, <1>7, <1>8, <1>9, <1>10, <1>11, <1>12, <1>13 DEF Serves

LEMMA SendsTypes ==
  ASSUME TypeOK, NEW q \in Requests, Sends(q)
  PROVE  TypeOK'
<1> USE DEF rows, ghosts, TypeOK
<1>s. {"enroll", "issue", "refresh", "logout", "mark"} \subseteq Stages
  BY DEF Stages
<1>1. ASSUME NEW b \in Browsers, Signup(q, b) PROVE TypeOK'
  <2>1. [Idle EXCEPT !.at = "enroll", !.who = b] \in Call
    BY <1>s, IdleIsCall, RecordUpdates
  <2> QED BY <1>1, <2>1 DEF Signup
<1>2. ASSUME NEW b \in Browsers, Login(q, b) PROVE TypeOK'
  <2>1. [Idle EXCEPT !.at = "issue", !.who = b, !.read = password] \in Call
    BY <1>s, IdleIsCall, RecordUpdates
  <2> QED BY <1>2, <2>1 DEF Login
<1>3. ASSUME NEW b \in Browsers, SendRefresh(q, b) PROVE TypeOK'
  <2>1. [Idle EXCEPT !.at = "refresh", !.who = b, !.given = jar[b]] \in Call
    BY <1>s, IdleIsCall, RecordUpdates
  <2> QED BY <1>3, <2>1 DEF SendRefresh
<1>4. ASSUME NEW b \in Browsers, SendLogout(q, b) PROVE TypeOK'
  <2>1. [Idle EXCEPT !.at = "logout", !.who = b, !.given = jar[b]] \in Call
    BY <1>s, IdleIsCall, RecordUpdates
  <2> QED BY <1>4, <2>1 DEF SendLogout
<1>5. ASSUME NEW l \in Links, resetPassword(q, l) PROVE TypeOK'
  <2>1. [Idle EXCEPT !.at = "mark", !.link = l] \in Call
    BY <1>s, IdleIsCall, RecordUpdates
  <2> QED BY <1>5, <2>1 DEF resetPassword
<1> QED BY <1>1, <1>2, <1>3, <1>4, <1>5 DEF Sends

LEMMA EnvironmentTypes == ASSUME TypeOK, Holding, Environment PROVE TypeOK'
<1> USE DEF rows, ghosts, TypeOK
<1>1. CASE \E l \in Links : requestPasswordReset(l) \/ LinkExpires(l)
  BY <1>1 DEF requestPasswordReset, LinkExpires
<1>2. CASE \E k \in Tokens : WindowCloses(k) \/ TokenExpires(k)
  BY <1>2 DEF WindowCloses, TokenExpires, TokenStates
<1>3. CASE \E q \in Requests : Dies(q)
  <2>1. PICK q \in Requests : Dies(q)
    BY <1>3
  <2> QED BY <2>1, EndsType DEF Dies, Holding, HoldsOf, At
<1> QED BY <1>1, <1>2, <1>3 DEF Environment

-----------------------------------------------------------------------------
(* What the rows and the requests are to each other *)

\* tokens are numbered as they are created, and a session by its first
Numbered ==
  /\ \A k \in Tokens : (state[k] = "none") <=> (k > issued)
  /\ \A k \in Tokens : root[k] <= k
  /\ \A k \in ended : k <= issued

\* a chain leads to younger tokens of one session
Chained ==
  \A k \in Tokens : next[k] # NoToken =>
    /\ k < next[k]
    /\ next[k] <= issued
    /\ root[next[k]] = root[k]

\* what is in a jar or was read by a request was issued, and of one session
FollowsOf(q) ==
  /\ \A k \in Tokens : k \in {call[q].given, call[q].row, call[q].new} => k <= issued
  /\ call[q].at = "walk" => /\ call[q].given < call[q].row
                            /\ root[call[q].row] = root[call[q].given]
  /\ call[q].at = "update" => /\ call[q].row < call[q].new
                              /\ root[call[q].new] = root[call[q].row]

Followed ==
  /\ \A b \in Browsers : jar[b] \in Tokens => jar[b] <= issued
  /\ \A q \in Requests : FollowsOf(q)

Known == TypeOK /\ Holding /\ Numbered /\ Chained /\ Followed

LEMMA InitKnown == Init => Known
<1> SUFFICES ASSUME Init PROVE Known
  OBVIOUS
<1>1. Holding
  BY DEF Init, Idle, Holding, HoldsOf
<1>2. Numbered /\ Chained
  BY SessionAssumption DEF Init, Tokens, Numbered, Chained
<1>3. Followed
  BY SessionAssumption DEF Init, Idle, Followed, FollowsOf, Tokens
<1> QED BY InitType, <1>1, <1>2, <1>3 DEF Known

-----------------------------------------------------------------------------
(* The rows *)

\* no step changes the number or the session of a token that was issued
Grows ==
  /\ issued <= issued'
  /\ \A k \in Tokens : k <= issued => root'[k] = root[k]

\* a step that leaves the table and `ended` alone
RowsKept == UNCHANGED <<issued, state, next, root, ended>>

LEMMA KeptRows ==
  ASSUME Known, RowsKept
  PROVE  Grows /\ Numbered' /\ Chained'
  BY SessionAssumption DEF Known, TypeOK, RowsKept, Grows, Numbered, Chained

\* `state` changes, of tokens that were issued, and nothing else
LEMMA StateChanges ==
  ASSUME Known, UNCHANGED <<issued, next, root>>, ended' \subseteq ended \cup Sessions,
         state' \in [Tokens -> TokenStates],
         \A k \in Tokens : (state'[k] = "none") <=> (state[k] = "none")
  PROVE  Grows /\ Numbered' /\ Chained'
<1>1. \A k \in Sessions : k <= issued
  BY SessionAssumption DEF Known, Sessions, TypeOK, Tokens, Numbered
<1> QED BY <1>1 DEF Known, TypeOK, Grows, Numbered, Chained

LEMMA CreatesRow ==
  ASSUME Known, NEW q \in Requests, NEW r \in Tokens, NEW p \in Nat, CreateToken(q, r, p),
         r <= issued + 1, next' = next, ended' = ended
  PROVE  Grows /\ Numbered' /\ Chained'
<1>1. issued \in 0..MaxTokens /\ issued + 1 \in Tokens /\ issued' = issued + 1
  BY CreateType DEF Known, TypeOK, CreateToken
<1>2. \A k \in Tokens : k \in Nat
  BY DEF Tokens
<1>3. \A k \in Tokens :
        /\ state'[k] = IF k = issued + 1 THEN "live" ELSE state[k]
        /\ root'[k] = IF k = issued + 1 THEN r ELSE root[k]
  BY <1>1 DEF Known, TypeOK, CreateToken
<1>4. Grows
  BY <1>1, <1>2, <1>3 DEF Grows
<1>5. Numbered'
  <2>1. \A k \in Tokens : (state'[k] = "none") <=> (k > issued')
    BY <1>1, <1>2, <1>3 DEF Known, Numbered
  <2>2. \A k \in Tokens : root'[k] <= k
    BY <1>1, <1>2, <1>3 DEF Known, Numbered
  <2>3. \A k \in ended : k <= issued'
    BY <1>1, <1>2 DEF Known, TypeOK, Numbered
  <2> QED BY <2>1, <2>2, <2>3 DEF Numbered
<1>6. Chained'
  <2> SUFFICES ASSUME NEW k \in Tokens, next[k] # NoToken
               PROVE  k < next[k] /\ next[k] <= issued' /\ root'[next[k]] = root'[k]
    BY DEF Chained
  <2>1. /\ next[k] \in Tokens /\ k < next[k] /\ next[k] <= issued
        /\ root[next[k]] = root[k]
    BY DEF Known, TypeOK, Chained
  <2> QED BY <1>1, <1>2, <1>3, <2>1
<1> QED BY <1>4, <1>5, <1>6

LEMMA ServesRows ==
  ASSUME Known, TypeOK', NEW q \in Requests, Serves(q)
  PROVE  Grows /\ Numbered' /\ Chained'
<1>1. CASE \/ CreateUser(q) \/ verifyAndRotate(q) \/ findLiveDescendant(q)
           \/ SetCookie(q) \/ ClearCookie(q) \/ MarkUsed(q) \/ WritePassword(q)
  BY <1>1, KeptRows
  DEF CreateUser, verifyAndRotate, findLiveDescendant, SetCookie, ClearCookie,
      MarkUsed, WritePassword, RowsKept, rows, ghosts
<1>2. CASE issueSession(q)
  <2>1. call[q].read \in Nat /\ issued + 1 \in Tokens
    BY <1>2, SessionAssumption DEF Known, TypeOK, Call, issueSession, CreateToken, Tokens
  <2>2. issued + 1 <= issued + 1
    BY <2>1 DEF Tokens
  <2> QED BY <1>2, <2>1, <2>2, CreatesRow DEF issueSession
<1>3. CASE RotateCreates(q)
  <2>1. /\ call[q].row \in Tokens /\ call[q].row <= issued
        /\ root[call[q].row] \in Tokens /\ root[call[q].row] <= call[q].row
        /\ proof[call[q].row] \in Nat
    BY <1>3 DEF Known, TypeOK, Holding, HoldsOf, Followed, FollowsOf, Numbered, RotateCreates, At
  <2>2. root[call[q].row] <= issued + 1
    BY <2>1, SessionAssumption DEF Known, TypeOK, Tokens
  <2> QED BY <1>3, <2>1, <2>2, CreatesRow DEF RotateCreates
<1>4. CASE RotateUpdates(q)
  <2>1. /\ call[q].row \in Tokens /\ call[q].row <= issued
        /\ call[q].new \in Tokens /\ call[q].new <= issued
        /\ call[q].row < call[q].new /\ root[call[q].new] = root[call[q].row]
    BY <1>4 DEF Known, Holding, HoldsOf, Followed, FollowsOf, RotateUpdates, At
  <2>2. state[call[q].row] # "none"
    BY <2>1, SessionAssumption DEF Known, Numbered, TypeOK, Tokens
  <2>3. \A k \in Tokens :
          /\ state'[k] = IF k = call[q].row THEN "recent" ELSE state[k]
          /\ next'[k] = IF k = call[q].row THEN call[q].new ELSE next[k]
    BY <1>4, <2>1 DEF RotateUpdates, Known, TypeOK
  <2>4. UNCHANGED <<issued, root, ended>>
    BY <1>4 DEF RotateUpdates
  <2>5. Grows
    BY <2>4, SessionAssumption DEF Grows, Known, TypeOK
  <2>6. Numbered'
    BY <2>2, <2>3, <2>4 DEF Known, Numbered
  <2>7. Chained'
    BY <2>1, <2>3, <2>4 DEF Known, Chained
  <2> QED BY <2>5, <2>6, <2>7
<1>5. CASE Alarm(q) \/ EndSessions(q)
  BY <1>5, StateChanges
  DEF Alarm, EndSessions, revokeAllForUser, Unrevoked, Known, TypeOK
<1>6. CASE revoke(q)
  <2>1. call[q].given \in Tokens /\ call[q].given <= issued
    BY <1>6 DEF Known, Holding, HoldsOf, Followed, FollowsOf, revoke, At
  <2>2. root[call[q].given] \in Sessions
    BY <2>1 DEF Sessions, Tokens, Known, TypeOK
  <2> QED BY <1>6, <2>1, <2>2, StateChanges DEF revoke, Unrevoked, Known, TypeOK
<1> QED BY <1>1, <1>2, <1>3, <1>4, <1>5, <1>6 DEF Serves

LEMMA SendsRows ==
  ASSUME Known, NEW q \in Requests, Sends(q)
  PROVE  Grows /\ Numbered' /\ Chained'
<1>1. RowsKept
  BY DEF Sends, Signup, Login, SendRefresh, SendLogout, resetPassword, RowsKept, rows, ghosts
<1> QED BY <1>1, KeptRows

LEMMA EnvironmentRows ==
  ASSUME Known, TypeOK', Environment
  PROVE  Grows /\ Numbered' /\ Chained'
<1>1. CASE \/ \E l \in Links : requestPasswordReset(l) \/ LinkExpires(l)
           \/ \E q \in Requests : Dies(q)
  BY <1>1, KeptRows DEF requestPasswordReset, LinkExpires, Dies, RowsKept, rows, ghosts
<1>2. CASE \E k \in Tokens : WindowCloses(k) \/ TokenExpires(k)
  BY <1>2, StateChanges DEF WindowCloses, TokenExpires, rows, ghosts, Known, TypeOK
<1> QED BY <1>1, <1>2 DEF Environment

LEMMA NextRows ==
  ASSUME Known, Next
  PROVE  TypeOK' /\ Grows /\ Numbered' /\ Chained'
<1>1. TypeOK'
  BY ServesTypes, SendsTypes, EnvironmentTypes DEF Next, Known
<1> QED BY <1>1, ServesRows, SendsRows, EnvironmentRows DEF Next

-----------------------------------------------------------------------------
(* The requests and the jars *)

\* A request that a step does not move still stands on the tokens it held.
LEMMA OtherRequest ==
  ASSUME Known, TypeOK', Grows, NEW c \in Requests, call'[c] = call[c]
  PROVE  HoldsOf(c)' /\ FollowsOf(c)'
<1>1. HoldsOf(c) /\ FollowsOf(c) /\ call[c] \in Call
  BY DEF Known, Holding, Followed, TypeOK
<1>2. \A k \in Tokens : k \in Nat
  BY DEF Tokens
<1>3. issued \in Nat /\ issued' \in Nat
  BY SessionAssumption DEF Grows, Known, TypeOK
<1>4. \A k \in Tokens : k <= issued => k <= issued' /\ root'[k] = root[k]
  BY <1>2, <1>3 DEF Grows
<1>5. call[c].at = "walk" => call[c].given \in Tokens /\ call[c].row \in Tokens
  BY <1>1 DEF HoldsOf
<1>6. call[c].at = "update" => call[c].new \in Tokens /\ call[c].row \in Tokens
  BY <1>1 DEF HoldsOf
<1> QED BY <1>1, <1>4, <1>5, <1>6 DEF HoldsOf, FollowsOf

LEMMA IdleRequest ==
  ASSUME NEW c \in Requests, call'[c] = Idle
  PROVE  HoldsOf(c)' /\ FollowsOf(c)'
  BY SessionAssumption DEF HoldsOf, FollowsOf, Idle, Tokens

LEMMA FollowMoves ==
  ASSUME Known, RowsKept, NEW q \in Requests, NEW k \in Tokens, Follow(q, k),
         call[q].given \in Tokens, call[q].given <= k, k <= issued,
         root[k] = root[call[q].given]
  PROVE  /\ \A c \in Requests \ {q} : call'[c] = call[c]
         /\ HoldsOf(q)' /\ FollowsOf(q)'
         /\ call'[q].at = "walk" => call'[q].row > k
<1>1. /\ call[q] \in Call /\ FollowsOf(q)
      /\ \A c \in Requests : call[c] \in Call
  BY DEF Known, TypeOK, Followed
<1>2. UNCHANGED <<issued, root>>
  BY DEF RowsKept
<1>3. \A j \in Tokens : j \in Nat
  BY DEF Tokens
<1>4. CASE next[k] # NoToken
  <2>1. next[k] \in Tokens /\ k < next[k] /\ next[k] <= issued /\ root[next[k]] = root[k]
    BY <1>4 DEF Known, TypeOK, Chained
  <2>2. call' = [call EXCEPT ![q].at = "walk", ![q].row = next[k]]
    BY <1>4 DEF Follow
  <2>3. /\ \A c \in Requests \ {q} : call'[c] = call[c]
        /\ call'[q].at = "walk" /\ call'[q].row = next[k]
        /\ call'[q].given = call[q].given /\ call'[q].new = call[q].new
    BY <1>1, <2>2 DEF Known, TypeOK, Call
  <2>4. HoldsOf(q)'
    BY <2>1, <2>3 DEF HoldsOf
  <2>5. FollowsOf(q)'
    BY <1>1, <1>2, <1>3, <2>1, <2>3 DEF FollowsOf
  <2> QED BY <1>3, <2>1, <2>3, <2>4, <2>5
<1>5. CASE next[k] = NoToken /\ Revoked(k)
  <2>1. call' = [call EXCEPT ![q].at = "alarm"]
    BY <1>5 DEF Follow, Goto
  <2>2. /\ \A c \in Requests \ {q} : call'[c] = call[c]
        /\ call'[q].at = "alarm" /\ call'[q].row = call[q].row
        /\ call'[q].given = call[q].given /\ call'[q].new = call[q].new
    BY <1>1, <2>1 DEF Known, TypeOK, Call
  <2> QED BY <1>1, <1>2, <2>2 DEF HoldsOf, FollowsOf
<1>6. CASE next[k] = NoToken /\ ~ Revoked(k)
  <2>1. call' = [call EXCEPT ![q] = [Idle EXCEPT !.at = "create", !.who = call[q].who, !.row = k]]
    BY <1>6 DEF Follow, Keeps
  <2>2. /\ \A c \in Requests \ {q} : call'[c] = call[c]
        /\ call'[q].at = "create" /\ call'[q].row = k
        /\ call'[q].given = NoToken /\ call'[q].new = NoToken
    BY <1>1, <2>1 DEF Known, TypeOK, Idle
  <2> QED BY <1>2, <1>3, <2>2, SessionAssumption DEF HoldsOf, FollowsOf
<1> QED BY <1>4, <1>5, <1>6

\* the request that a step of its own moves, and the other requests with it
Moves(q) ==
  /\ \A c \in Requests \ {q} : call'[c] = call[c]
  /\ HoldsOf(q)' /\ FollowsOf(q)'

LEMMA ServesMoves ==
  ASSUME Known, TypeOK', Grows, NEW q \in Requests, Serves(q)
  PROVE  Moves(q)
<1> USE DEF Moves
<1>t. /\ call \in [Requests -> Call] /\ call[q] \in Call
      /\ HoldsOf(q) /\ FollowsOf(q)
  BY DEF Known, TypeOK, Holding, Followed
<1>n. \A k \in Tokens : k \in Nat /\ k # NoToken
  BY SessionAssumption DEF Tokens
<1>i. issued \in Nat /\ issued' \in Nat
  BY SessionAssumption DEF Known, TypeOK
<1>1. CASE \/ CreateUser(q) /\ HasAccount
           \/ verifyAndRotate(q) /\ state[call[q].given] = "expired"
           \/ Alarm(q) \/ SetCookie(q) \/ ClearCookie(q) \/ EndSessions(q)
  <2>1. call' = [call EXCEPT ![q] = Idle]
    BY <1>1 DEF CreateUser, verifyAndRotate, Alarm, SetCookie, ClearCookie, EndSessions, Ends
  <2>2. call'[q] = Idle /\ \A c \in Requests \ {q} : call'[c] = call[c]
    BY <1>t, <2>1
  <2> QED BY <2>2, IdleRequest
<1>2. CASE CreateUser(q) /\ ~ HasAccount
  <2>1. /\ \A c \in Requests \ {q} : call'[c] = call[c]
        /\ call'[q].at = "issue" /\ call'[q].row = call[q].row
        /\ call'[q].given = call[q].given /\ call'[q].new = call[q].new
    BY <1>2, <1>t DEF CreateUser, Call
  <2> QED BY <1>t, <1>2, <2>1 DEF CreateUser, rows, HoldsOf, FollowsOf
<1>3. CASE issueSession(q)
  <2>1. /\ \A c \in Requests \ {q} : call'[c] = call[c]
        /\ call'[q].at = "answer" /\ call'[q].row = NoToken
        /\ call'[q].given = NoToken /\ call'[q].new = issued + 1
    BY <1>3, <1>t DEF issueSession, Idle
  <2>2. issued' = issued + 1 /\ issued + 1 \in Tokens
    BY <1>3, <1>i, SessionAssumption DEF issueSession, CreateToken, Tokens
  <2> QED BY <1>n, <1>i, <2>1, <2>2 DEF HoldsOf, FollowsOf
<1>4. CASE verifyAndRotate(q) /\ state[call[q].given] # "expired"
  <2>1. /\ call[q].given \in Tokens /\ call[q].given <= issued /\ RowsKept
        /\ call[q].given <= call[q].given
    BY <1>4, <1>t, <1>n DEF verifyAndRotate, HoldsOf, FollowsOf, At, RowsKept, rows
  <2>2. CASE Follow(q, call[q].given)
    BY <2>1, <2>2, FollowMoves
  <2>3. CASE Goto(q, "alarm")
    <3>1. /\ \A c \in Requests \ {q} : call'[c] = call[c]
          /\ call'[q].at = "alarm" /\ call'[q].row = call[q].row
          /\ call'[q].given = call[q].given /\ call'[q].new = call[q].new
      BY <2>3, <1>t DEF Goto, Call
    <3> QED BY <1>t, <2>1, <3>1 DEF HoldsOf, FollowsOf, RowsKept
  <2>4. CASE Keeps(q, "create", call[q].given)
    <3>1. /\ \A c \in Requests \ {q} : call'[c] = call[c]
          /\ call'[q].at = "create" /\ call'[q].row = call[q].given
          /\ call'[q].given = NoToken /\ call'[q].new = NoToken
      BY <2>4, <1>t DEF Keeps, Idle
    <3> QED BY <1>n, <2>1, <3>1 DEF HoldsOf, FollowsOf, RowsKept
  <2> QED BY <1>4, <2>2, <2>3, <2>4 DEF verifyAndRotate
<1>5. CASE findLiveDescendant(q)
  <2>1. /\ call[q].given \in Tokens /\ call[q].row \in Tokens /\ call[q].row <= issued
        /\ call[q].given < call[q].row /\ root[call[q].row] = root[call[q].given]
    BY <1>5, <1>t DEF findLiveDescendant, HoldsOf, FollowsOf, At
  <2>2. RowsKept /\ Follow(q, call[q].row)
    BY <1>5 DEF findLiveDescendant, RowsKept, rows, ghosts
  <2> QED BY <1>n, <2>1, <2>2, FollowMoves
<1>6. CASE RotateCreates(q)
  <2>1. call[q].row \in Tokens /\ call[q].row <= issued
    BY <1>6, <1>t DEF RotateCreates, HoldsOf, FollowsOf, At
  <2>2. /\ \A c \in Requests \ {q} : call'[c] = call[c]
        /\ call'[q].at = "update" /\ call'[q].row = call[q].row
        /\ call'[q].given = call[q].given /\ call'[q].new = issued + 1
    BY <1>6, <1>t DEF RotateCreates, Call
  <2>3. issued' = issued + 1 /\ issued + 1 \in Tokens
    BY <1>6, <1>i, SessionAssumption DEF RotateCreates, CreateToken, Tokens
  <2>4. root'[issued + 1] = root[call[q].row] /\ root'[call[q].row] = root[call[q].row]
    BY <1>6, <2>1, <2>3 DEF RotateCreates, CreateToken, Grows, Known, TypeOK
  <2>5. \A k \in Tokens : k \in {call'[q].given, call'[q].row, call'[q].new} => k <= issued'
    BY <1>t, <1>n, <1>i, <2>1, <2>2, <2>3 DEF FollowsOf
  <2> QED BY <1>n, <1>i, <2>1, <2>2, <2>3, <2>4, <2>5 DEF HoldsOf, FollowsOf
<1>7. CASE RotateUpdates(q)
  <2>1. /\ \A c \in Requests \ {q} : call'[c] = call[c]
        /\ call'[q].at = "answer" /\ call'[q].row = NoToken
        /\ call'[q].given = call[q].given /\ call'[q].new = call[q].new
        /\ issued' = issued
    BY <1>7, <1>t DEF RotateUpdates, Call
  <2> QED BY <1>7, <1>t, <1>n, <2>1 DEF RotateUpdates, HoldsOf, FollowsOf, At
<1>8. CASE revoke(q) \/ MarkUsed(q)
  <2>1. Keeps(q, "clear", NoToken) \/ Keeps(q, "write", NoToken)
    BY <1>8 DEF revoke, MarkUsed
  <2>2. /\ \A c \in Requests \ {q} : call'[c] = call[c]
        /\ call'[q].at \in {"clear", "write"} /\ call'[q].row = NoToken
        /\ call'[q].given = NoToken /\ call'[q].new = NoToken
    BY <2>1, <1>t DEF Keeps, Idle
  <2> QED BY <1>n, <2>2 DEF HoldsOf, FollowsOf
<1>9. CASE WritePassword(q)
  <2>1. /\ \A c \in Requests \ {q} : call'[c] = call[c]
        /\ call'[q].at = "revokeAll" /\ call'[q].row = call[q].row
        /\ call'[q].given = call[q].given /\ call'[q].new = call[q].new
        /\ issued' = issued
    BY <1>9, <1>t DEF WritePassword, Goto, Call, rows
  <2> QED BY <1>t, <2>1 DEF HoldsOf, FollowsOf
<1> QED
  BY <1>1, <1>2, <1>3, <1>4, <1>5, <1>6, <1>7, <1>8, <1>9 DEF Serves

LEMMA SendsMoves ==
  ASSUME Known, NEW q \in Requests, Sends(q)
  PROVE  Moves(q)
<1>t. call \in [Requests -> Call]
  BY DEF Known, TypeOK
<1>n. \A k \in Tokens : k # NoToken
  BY SessionAssumption DEF Tokens
<1>1. /\ \A c \in Requests \ {q} : call'[c] = call[c]
      /\ call'[q].at \in {"enroll", "issue", "refresh", "logout", "mark"}
      /\ call'[q].row = NoToken /\ call'[q].new = NoToken
  <2>1. ASSUME NEW b \in Browsers, Signup(q, b) \/ Login(q, b) PROVE <1>1!:
    BY <2>1, <1>t DEF Signup, Login, Idle
  <2>2. ASSUME NEW b \in Browsers, SendRefresh(q, b) \/ SendLogout(q, b) PROVE <1>1!:
    BY <2>2, <1>t DEF SendRefresh, SendLogout, Idle
  <2>3. ASSUME NEW l \in Links, resetPassword(q, l) PROVE <1>1!:
    BY <2>3, <1>t DEF resetPassword, Idle
  <2> QED BY <2>1, <2>2, <2>3 DEF Sends
<1>0. issued' = issued
  BY DEF Sends, Signup, Login, SendRefresh, SendLogout, resetPassword, rows
<1>2. \/ call'[q].given = NoToken /\ call'[q].at \notin {"refresh", "logout"}
      \/ \E b \in Browsers : call'[q].given = jar[b] /\ jar[b] # NoToken
  BY <1>t DEF Sends, Signup, Login, SendRefresh, SendLogout, resetPassword, Idle
<1>3. \A b \in Browsers : jar[b] # NoToken => jar[b] \in Tokens /\ jar[b] <= issued
  BY DEF Known, TypeOK, Followed
<1> QED BY <1>n, <1>0, <1>1, <1>2, <1>3 DEF Moves, HoldsOf, FollowsOf

\* a jar is only ever given the token of an answer
LEMMA NextJars ==
  ASSUME Known, Next
  PROVE  \A b \in Browsers : jar'[b] \in {jar[b], NoToken} \cup {call[q].new : q \in Requests}
  BY DEF Next, Serves, Sends, Environment, CreateUser, issueSession, verifyAndRotate,
         findLiveDescendant, RotateCreates, RotateUpdates, Alarm, SetCookie, revoke,
         ClearCookie, MarkUsed, WritePassword, EndSessions, Signup, Login, SendRefresh,
         SendLogout, resetPassword, requestPasswordReset, LinkExpires, WindowCloses,
         TokenExpires, Dies, Known, TypeOK

LEMMA KnownStep == Known /\ [Next]_vars => Known'
<1>1. ASSUME Known, UNCHANGED vars PROVE Known'
  BY <1>1 DEF vars, rows, ghosts, Known, TypeOK, Holding, HoldsOf, Numbered, Chained, Followed, FollowsOf
<1>2. ASSUME Known, Next PROVE Known'
  <2>1. TypeOK' /\ Grows /\ Numbered' /\ Chained'
    BY <1>2, NextRows
  <2>2. \A c \in Requests : HoldsOf(c)' /\ FollowsOf(c)'
    <3>1. CASE \E q \in Requests : Serves(q) \/ Sends(q)
      BY <1>2, <2>1, <3>1, ServesMoves, SendsMoves, OtherRequest DEF Moves
    <3>2. CASE \E q \in Requests : Dies(q)
      <4>1. PICK q \in Requests : Dies(q)
        BY <3>2
      <4>2. call'[q] = Idle /\ \A c \in Requests \ {q} : call'[c] = call[c]
        BY <1>2, <4>1 DEF Dies, Ends, Known, TypeOK
      <4> QED BY <1>2, <2>1, <4>2, IdleRequest, OtherRequest
    <3>3. CASE \/ \E l \in Links : requestPasswordReset(l) \/ LinkExpires(l)
               \/ \E k \in Tokens : WindowCloses(k) \/ TokenExpires(k)
      <4>1. call' = call
        BY <3>3 DEF requestPasswordReset, LinkExpires, WindowCloses, TokenExpires
      <4> QED BY <1>2, <2>1, <4>1, OtherRequest
    <3> QED BY <1>2, <3>1, <3>2, <3>3 DEF Next, Environment
  <2>3. \A b \in Browsers : jar'[b] \in Tokens => jar'[b] <= issued'
    <3>1. \A b \in Browsers :
            jar'[b] \in {jar[b], NoToken} \cup {call[q].new : q \in Requests}
      BY <1>2, NextJars
    <3>2. \A k \in Tokens : k \in Nat /\ k # NoToken
      BY SessionAssumption DEF Tokens
    <3>3. issued \in Nat /\ issued' \in Nat /\ issued <= issued'
      BY <1>2, <2>1, SessionAssumption DEF Known, TypeOK, Grows
    <3> QED BY <1>2, <3>1, <3>2, <3>3 DEF Known, Followed, FollowsOf
  <2> QED BY <2>1, <2>2, <2>3 DEF Known, Holding, Followed
<1> QED BY <1>1, <1>2

LEMMA KnownAlways == Spec => []Known
  BY InitKnown, KnownStep, PTL DEF Spec

\* Rows, cookies and requests keep their types: no request comes to a step
\* without the row, the browser or the link that the step needs.
THEOREM SessionTypes == Spec => []TypeOK
<1>1. Known => TypeOK
  BY DEF Known
<1> QED BY <1>1, KnownAlways, PTL

\* where the helpers leave a request
LEMMA Arrives ==
  ASSUME Known, NEW q \in Requests
  PROVE  /\ \A s : Goto(q, s) => /\ call'[q].at = s /\ call'[q].given = call[q].given
                                 /\ call'[q].new = call[q].new /\ call'[q].read = call[q].read
         /\ \A s, k : Keeps(q, s, k) => /\ call'[q].at = s /\ call'[q].row = k
                                        /\ call'[q].given = NoToken /\ call'[q].new = NoToken
         /\ Ends(q) => call'[q] = Idle
<1>1. call \in [Requests -> Call]
  BY DEF Known, TypeOK
<1>2. \A s : Goto(q, s) => /\ call'[q].at = s /\ call'[q].given = call[q].given
                           /\ call'[q].new = call[q].new /\ call'[q].read = call[q].read
  BY <1>1 DEF Goto, Call
<1>3. \A s, k : Keeps(q, s, k) => /\ call'[q].at = s /\ call'[q].row = k
                                  /\ call'[q].given = NoToken /\ call'[q].new = NoToken
  BY <1>1 DEF Keeps, Idle
<1> QED BY <1>1, <1>2, <1>3 DEF Ends

\* where a request that created a token stands
LEMMA CreateArrives ==
  ASSUME Known, NEW q \in Requests, issueSession(q) \/ RotateCreates(q)
  PROVE  call'[q].at \in {"answer", "update"} /\ call'[q].new = issued + 1
<1>1. CASE issueSession(q)
  BY <1>1 DEF issueSession, Known, TypeOK, Idle
<1>2. CASE RotateCreates(q)
  BY <1>2 DEF RotateCreates, Known, TypeOK, Call
<1> QED BY <1>1, <1>2

\* where a turn of the walk leaves it
LEMMA FollowArrives ==
  ASSUME Known, NEW q \in Requests, NEW k \in Tokens, Follow(q, k)
  PROVE  /\ call'[q].at \in {"walk", "alarm", "create"}
         /\ call'[q].new \in {call[q].new, NoToken}
         /\ call'[q].at = "alarm" => /\ call'[q].given = call[q].given
                                     /\ Revoked(k) /\ next[k] = NoToken
         /\ call'[q].at = "create" => call'[q].row = k /\ ~ Revoked(k)
<1>1. CASE next[k] # NoToken
  <2>1. call'[q].at = "walk" /\ call'[q].new = call[q].new
    BY <1>1 DEF Follow, Known, TypeOK, Call
  <2> QED BY <2>1
<1>2. CASE next[k] = NoToken
  BY <1>2, Arrives DEF Follow
<1> QED BY <1>1, <1>2

\* the ways in which a step moves a request
CallStep(c) ==
  \/ call'[c] \in {call[c], Idle}
  \/ verifyAndRotate(c) \/ findLiveDescendant(c)
  \/ issueSession(c) \/ RotateCreates(c)
  \/ call'[c].at = "issue" /\ (CreateUser(c) \/ \E b \in Browsers : Login(c, b))
  \/ \E b \in Browsers : SendRefresh(c, b)
  \/ /\ call'[c].at \in {"enroll", "logout", "answer", "clear", "mark", "write", "revokeAll"}
     /\ call'[c].new \in {call[c].new, NoToken}
     /\ call'[c].at = "mark" => \E l \in Links : resetPassword(c, l)
     /\ call'[c].at = "write" => MarkUsed(c)

LEMMA NextMoves ==
  ASSUME Known, Next, NEW c \in Requests
  PROVE  CallStep(c)
<1>t. call \in [Requests -> Call] /\ call[c] \in Call
  BY DEF Known, TypeOK
<1>1. ASSUME Serves(c) PROVE CallStep(c)
  <2>1. CASE \/ verifyAndRotate(c) \/ findLiveDescendant(c)
             \/ issueSession(c) \/ RotateCreates(c)
    BY <2>1 DEF CallStep
  <2>2. CASE CreateUser(c)
    <3>1. CASE HasAccount
      BY <2>2, <3>1, Arrives DEF CreateUser, CallStep
    <3>2. CASE ~ HasAccount
      <4>1. call'[c].at = "issue"
        BY <1>t, <2>2, <3>2 DEF CreateUser, Call
      <4> QED BY <2>2, <4>1 DEF CallStep
    <3> QED BY <3>1, <3>2
  <2>3. CASE RotateUpdates(c)
    <3>1. call'[c].at = "answer" /\ call'[c].new = call[c].new
      BY <1>t, <2>3 DEF RotateUpdates, Call
    <3> QED BY <3>1 DEF CallStep
  <2>4. CASE Alarm(c) \/ SetCookie(c) \/ ClearCookie(c) \/ EndSessions(c)
    BY <1>t, <2>4, Arrives DEF Alarm, SetCookie, ClearCookie, EndSessions, CallStep
  <2>5. CASE revoke(c) \/ MarkUsed(c)
    <3>1. Keeps(c, "clear", NoToken) \/ (Keeps(c, "write", NoToken) /\ MarkUsed(c))
      BY <2>5 DEF revoke, MarkUsed
    <3>2. /\ call'[c].at \in {"clear", "write"} /\ call'[c].new = NoToken
          /\ call'[c].at = "write" => MarkUsed(c)
      BY <1>t, <3>1 DEF Keeps, Idle
    <3> QED BY <3>2 DEF CallStep
  <2>6. CASE WritePassword(c)
    <3>1. call'[c].at = "revokeAll" /\ call'[c].new = call[c].new
      BY <1>t, <2>6 DEF WritePassword, Goto, Call
    <3> QED BY <3>1 DEF CallStep
  <2> QED BY <1>1, <2>1, <2>2, <2>3, <2>4, <2>5, <2>6 DEF Serves
<1>2. ASSUME Sends(c) PROVE CallStep(c)
  <2>1. ASSUME NEW b \in Browsers, SendRefresh(c, b) PROVE CallStep(c)
    BY <2>1 DEF CallStep
  <2>2. ASSUME NEW b \in Browsers, Login(c, b) PROVE CallStep(c)
    <3>1. call'[c].at = "issue"
      BY <1>t, <2>2 DEF Login, Idle
    <3> QED BY <2>2, <3>1 DEF CallStep
  <2>3. ASSUME NEW b \in Browsers, Signup(c, b) \/ SendLogout(c, b) PROVE CallStep(c)
    <3>1. call'[c].at \in {"enroll", "logout"} /\ call'[c].new = NoToken
      BY <1>t, <2>3 DEF Signup, SendLogout, Idle
    <3> QED BY <3>1 DEF CallStep
  <2>4. ASSUME NEW l \in Links, resetPassword(c, l) PROVE CallStep(c)
    <3>1. call'[c].at = "mark" /\ call'[c].new = NoToken
      BY <1>t, <2>4 DEF resetPassword, Idle
    <3> QED BY <2>4, <3>1 DEF CallStep
  <2> QED BY <1>2, <2>1, <2>2, <2>3, <2>4 DEF Sends
<1>3. ASSUME NEW p \in Requests \ {c}, Serves(p) \/ Sends(p) PROVE CallStep(c)
  <2>1. Moves(p)
    BY <1>3, NextRows, ServesMoves, SendsMoves
  <2> QED BY <2>1 DEF Moves, CallStep
<1>4. ASSUME Environment PROVE CallStep(c)
  BY <1>t, <1>4
  DEF Environment, requestPasswordReset, LinkExpires, WindowCloses, TokenExpires, Dies, Ends, CallStep
<1> QED BY <1>1, <1>2, <1>3, <1>4 DEF Next

\* Walking a chain ends, for any number of requests that rotate it meanwhile.
THEOREM WalksGoForward == Spec => WalkGoesForward
<1>1. ASSUME Known, [Next]_vars, NEW q \in Requests,
             call'[q].at = "walk", call'[q] # call[q]
      PROVE  call'[q].row > Standing(q)
  <2>1. call \in [Requests -> Call] /\ HoldsOf(q) /\ FollowsOf(q)
    BY <1>1 DEF Known, TypeOK, Holding, Followed
  <2>2. Next
    BY <1>1 DEF vars
  <2>3. CASE verifyAndRotate(q)
    <3>1. /\ call[q].given \in Tokens /\ call[q].given <= issued /\ RowsKept
          /\ call[q].given <= call[q].given
      BY <2>1, <2>3 DEF verifyAndRotate, HoldsOf, FollowsOf, At, RowsKept, rows, Tokens
    <3>2. Follow(q, call[q].given)
      BY <1>1, <2>3, Arrives DEF verifyAndRotate, Idle
    <3> QED BY <1>1, <2>3, <3>1, <3>2, FollowMoves DEF verifyAndRotate, Standing, At
  <2>4. CASE findLiveDescendant(q)
    <3>1. /\ call[q].given \in Tokens /\ call[q].row \in Tokens /\ call[q].row <= issued
          /\ call[q].given <= call[q].row /\ root[call[q].row] = root[call[q].given]
      BY <2>1, <2>4 DEF findLiveDescendant, HoldsOf, FollowsOf, At, Tokens
    <3>2. RowsKept /\ Follow(q, call[q].row)
      BY <2>4 DEF findLiveDescendant, RowsKept, rows, ghosts
    <3> QED BY <1>1, <2>4, <3>1, <3>2, FollowMoves DEF findLiveDescendant, Standing, At
  <2>5. CASE ~ verifyAndRotate(q) /\ ~ findLiveDescendant(q)
    <3>1. CallStep(q)
      BY <1>1, <2>2, NextMoves
    <3>2. FALSE
      <4>1. CASE issueSession(q) \/ RotateCreates(q)
        BY <1>1, <4>1, CreateArrives
      <4>2. CASE \E b \in Browsers : SendRefresh(q, b)
        BY <1>1, <2>1, <4>2 DEF SendRefresh, Idle
      <4> QED BY <1>1, <2>5, <3>1, <4>1, <4>2 DEF CallStep, Idle
    <3> QED BY <3>2
  <2> QED BY <2>3, <2>4, <2>5
<1>2. Known /\ [Next]_vars =>
        [\A q \in Requests : call'[q].at = "walk" /\ call'[q] # call[q]
                               => call'[q].row > Standing(q)]_vars
  BY <1>1
<1> QED BY KnownAlways, <1>2, PTL DEF Spec, WalkGoesForward

-----------------------------------------------------------------------------
(* Reuse detection *)

\* a token that a browser may still present
InUse(k) ==
  \/ \E b \in Browsers : jar[b] = k
  \/ \E q \in Requests : At(q, "refresh") /\ call[q].given = k
  \/ \E q \in Requests : call[q].new = k

\* why a token is revoked, and why one in use is old
Explained ==
  /\ \A k \in Tokens : Revoked(k) /\ next[k] = NoToken => root[k] \in ended
  /\ \A k \in Tokens : state[k] = "old" /\ InUse(k) => root[k] \in late

AlarmInv == Known /\ Explained /\ NoFalseAlarm

\* the ways in which a step changes the state of a token
Changes(k) ==
  \/ state'[k] = state[k]
  \/ state[k] = "none" /\ state'[k] = "live" /\ k = issued + 1
  \/ /\ state[k] # "none" /\ state'[k] = "recent"
     /\ root[k] \in ended' \/ next'[k] # NoToken
  \/ state[k] = "recent" /\ state'[k] = "old" /\ (InUse(k) => root[k] \in late')
  \/ state[k] = "live" /\ state'[k] = "expired"

LEMMA HistoryGrows ==
  ASSUME Next
  PROVE  ended \subseteq ended' /\ late \subseteq late'
  BY DEF Next, Serves, Sends, Environment, CreateUser, issueSession, verifyAndRotate,
         findLiveDescendant, RotateCreates, RotateUpdates, Alarm, SetCookie, revoke,
         ClearCookie, MarkUsed, WritePassword, EndSessions, Signup, Login, SendRefresh,
         SendLogout, resetPassword, requestPasswordReset, LinkExpires, WindowCloses,
         TokenExpires, Dies, revokeAllForUser, ghosts

LEMMA NextChanges ==
  ASSUME Known, Next, NEW k \in Tokens
  PROVE  /\ Changes(k)
         /\ next'[k] = next[k] \/ next'[k] # NoToken
<1>t. /\ state \in [Tokens -> TokenStates] /\ next \in [Tokens -> Tokens \cup {NoToken}]
      /\ \A j \in Tokens : (state[j] = "none") <=> (j > issued)
  BY DEF Known, TypeOK, Numbered
<1>n. \A j \in Tokens : j \in Nat /\ j # NoToken
  BY SessionAssumption DEF Tokens
<1>c. ASSUME NEW q \in Requests, NEW r, NEW p, CreateToken(q, r, p) PROVE Changes(k)
  <2>1. issued + 1 \in Tokens /\ issued \in Nat
    BY <1>c, SessionAssumption DEF CreateToken, Known, TypeOK, Tokens
  <2>2. state' = [state EXCEPT ![issued + 1] = "live"]
    BY <1>c DEF CreateToken
  <2> QED BY <1>t, <1>n, <2>1, <2>2 DEF Changes
<1>r. ASSUME revokeAllForUser PROVE Changes(k)
  <2>1. Unrevoked(k) => root[k] \in Sessions
    BY <1>t, SessionAssumption DEF Unrevoked, Sessions, Known, TypeOK, Tokens
  <2> QED BY <1>r, <2>1 DEF revokeAllForUser, Changes, Unrevoked
<1>1. ASSUME NEW q \in Requests, Serves(q)
      PROVE  Changes(k) /\ (next'[k] = next[k] \/ next'[k] # NoToken)
  <2>1. CASE \/ CreateUser(q) \/ verifyAndRotate(q) \/ findLiveDescendant(q)
             \/ SetCookie(q) \/ ClearCookie(q) \/ MarkUsed(q) \/ WritePassword(q)
    BY <2>1
    DEF CreateUser, verifyAndRotate, findLiveDescendant, SetCookie, ClearCookie,
        MarkUsed, WritePassword, rows, Changes
  <2>2. CASE issueSession(q) \/ RotateCreates(q)
    BY <2>2, <1>c DEF issueSession, RotateCreates
  <2>3. CASE RotateUpdates(q)
    <3>1. /\ call[q].row \in Tokens /\ call[q].new \in Tokens /\ call[q].row <= issued
      BY <2>3 DEF Known, Holding, HoldsOf, Followed, FollowsOf, RotateUpdates, At
    <3>2. state[call[q].row] # "none"
      BY <1>t, <1>n, <3>1, SessionAssumption DEF Known, TypeOK
    <3> QED BY <1>t, <1>n, <2>3, <3>1, <3>2 DEF RotateUpdates, Changes
  <2>4. CASE Alarm(q) \/ EndSessions(q)
    BY <2>4, <1>r DEF Alarm, EndSessions
  <2>5. CASE revoke(q)
    BY <1>t, <2>5 DEF revoke, Changes, Unrevoked
  <2> QED BY <1>1, <2>1, <2>2, <2>3, <2>4, <2>5 DEF Serves
<1>2. ASSUME NEW q \in Requests, Sends(q)
      PROVE  Changes(k) /\ next'[k] = next[k]
  BY <1>2 DEF Sends, Signup, Login, SendRefresh, SendLogout, resetPassword, rows, Changes
<1>3. ASSUME Environment
      PROVE  Changes(k) /\ next'[k] = next[k]
  <2>1. ASSUME NEW j \in Tokens, WindowCloses(j) PROVE Changes(k) /\ next'[k] = next[k]
    BY <1>t, <2>1 DEF WindowCloses, Changes, InUse
  <2>2. ASSUME NEW j \in Tokens, TokenExpires(j) PROVE Changes(k) /\ next'[k] = next[k]
    BY <1>t, <2>2 DEF TokenExpires, Changes, rows
  <2> QED
    BY <1>3, <2>1, <2>2
    DEF Environment, requestPasswordReset, LinkExpires, Dies, rows, Changes
<1> QED BY <1>1, <1>2, <1>3 DEF Next

LEMMA StaysInUse ==
  ASSUME Known, Next, NEW k \in Tokens, InUse(k)'
  PROVE  InUse(k) \/ state'[k] = "live"
<1>t. call \in [Requests -> Call]
  BY DEF Known, TypeOK
<1>n. k # NoToken
  BY SessionAssumption DEF Tokens
<1>1. ASSUME NEW b \in Browsers, jar'[b] = k PROVE InUse(k)
  BY <1>1, <1>n, NextJars DEF InUse
<1>2. ASSUME NEW q \in Requests, call'[q].new = k PROVE InUse(k) \/ state'[k] = "live"
  <2>1. CallStep(q)
    BY NextMoves
  <2>2. CASE call'[q].new \in {call[q].new, NoToken}
    BY <1>2, <1>n, <2>2 DEF InUse
  <2>3. CASE call'[q].new \notin {call[q].new, NoToken}
    <3>1. CASE issueSession(q) \/ RotateCreates(q)
      <4>1. call'[q].new = issued + 1
        BY <3>1, CreateArrives
      <4>2. state'[issued + 1] = "live"
        BY <1>2, <3>1, <4>1 DEF issueSession, RotateCreates, CreateToken, Known, TypeOK
      <4> QED BY <1>2, <4>1, <4>2
    <3>2. CASE verifyAndRotate(q) \/ findLiveDescendant(q)
      <4>1. call[q].at = "refresh" => call[q].given \in Tokens
        BY DEF Known, Holding, HoldsOf
      <4>2. call[q].at = "walk" => call[q].row \in Tokens
        BY DEF Known, Holding, HoldsOf
      <4> QED
        BY <2>3, <3>2, <4>1, <4>2, Arrives, FollowArrives
        DEF verifyAndRotate, findLiveDescendant, At, Idle
    <3>3. CASE call'[q].at = "issue" /\ (CreateUser(q) \/ \E b \in Browsers : Login(q, b))
      <4>1. call'[q].new \in {call[q].new, NoToken}
        <5>1. CASE CreateUser(q) /\ HasAccount
          BY <5>1, Arrives DEF CreateUser, Idle
        <5>2. CASE CreateUser(q) /\ ~ HasAccount
          BY <1>t, <5>2 DEF CreateUser, Call
        <5>3. CASE \E b \in Browsers : Login(q, b)
          BY <1>t, <5>3 DEF Login, Idle
        <5> QED BY <3>3, <5>1, <5>2, <5>3
      <4> QED BY <2>3, <4>1
    <3>4. CASE \E b \in Browsers : SendRefresh(q, b)
      BY <1>t, <2>3, <3>4 DEF SendRefresh, Idle
    <3> QED BY <2>1, <2>3, <3>1, <3>2, <3>3, <3>4 DEF CallStep, Idle
  <2> QED BY <2>2, <2>3
<1>3. ASSUME NEW q \in Requests, call'[q].at = "refresh", call'[q].given = k PROVE InUse(k)
  <2>1. CallStep(q)
    BY NextMoves
  <2>2. CASE call'[q] = call[q]
    BY <1>3, <2>2 DEF InUse, At
  <2>3. CASE \E b \in Browsers : SendRefresh(q, b)
    BY <1>3, <1>t, <2>3 DEF SendRefresh, Idle, InUse
  <2>4. CASE verifyAndRotate(q) \/ findLiveDescendant(q)
    BY <1>3, <1>t, <2>4, Arrives DEF verifyAndRotate, findLiveDescendant, Follow, Idle, Call
  <2>5. CASE issueSession(q) \/ RotateCreates(q)
    <3>1. call'[q].at \in {"answer", "update"}
      BY <2>5, CreateArrives
    <3> QED BY <1>3, <3>1
  <2> QED BY <1>3, <2>1, <2>2, <2>3, <2>4, <2>5 DEF CallStep, Idle
<1> QED BY <1>1, <1>2, <1>3 DEF InUse, At

LEMMA ExplainedStep ==
  ASSUME Known, Explained, Next
  PROVE  Explained'
<1>1. ASSUME NEW k \in Tokens, Revoked(k)', next'[k] = NoToken
      PROVE  root'[k] \in ended'
  <2>1. /\ Changes(k) /\ (next'[k] = next[k] \/ next'[k] # NoToken)
        /\ ended \subseteq ended' /\ Grows
    BY NextChanges, HistoryGrows, NextRows
  <2>2. k <= issued /\ state[k] # "none"
    BY <1>1, <2>1 DEF Changes, Revoked, Known, Numbered, TypeOK, Tokens
  <2>3. root'[k] = root[k]
    BY <2>1, <2>2 DEF Grows
  <2> QED BY <1>1, <2>1, <2>3 DEF Changes, Revoked, Explained
<1>2. ASSUME NEW k \in Tokens, state'[k] = "old", InUse(k)'
      PROVE  root'[k] \in late'
  <2>1. Changes(k) /\ late \subseteq late' /\ Grows /\ InUse(k)
    BY <1>2, NextChanges, HistoryGrows, NextRows, StaysInUse
  <2>2. state[k] # "none"
    BY <1>2, <2>1 DEF Changes
  <2>3. root'[k] = root[k]
    BY <2>1, <2>2 DEF Grows, Known, Numbered, TypeOK, Tokens
  <2> QED BY <1>2, <2>1, <2>3 DEF Changes, Explained
<1> QED BY <1>1, <1>2 DEF Explained

LEMMA AlarmStep ==
  ASSUME AlarmInv, Next
  PROVE  NoFalseAlarm'
<1> SUFFICES ASSUME NEW q \in Requests, call'[q].at = "alarm"
             PROVE  root'[call'[q].given] \in ended' \cup late'
  BY DEF NoFalseAlarm, In, At
<1>k. Known /\ Explained /\ NoFalseAlarm /\ call \in [Requests -> Call]
  BY DEF AlarmInv, Known, TypeOK
<1>t. HoldsOf(q) /\ FollowsOf(q)
  BY <1>k DEF Known, Holding, Followed
<1>g. ended \subseteq ended' /\ late \subseteq late' /\ Grows
  BY <1>k, HistoryGrows, NextRows
<1>a. call'[q].given \in Tokens /\ call'[q].given <= issued => root'[call'[q].given] = root[call'[q].given]
  BY <1>g DEF Grows
<1>1. CASE call'[q] = call[q]
  <2>1. call[q].given \in Tokens /\ call[q].given <= issued
    BY <1>1, <1>t DEF HoldsOf, FollowsOf
  <2>2. root[call[q].given] \in ended \cup late
    BY <1>1, <1>k DEF NoFalseAlarm, In, At
  <2> QED BY <1>1, <1>a, <1>g, <2>1, <2>2
<1>2. CASE verifyAndRotate(q)
  <2>1. call[q].given \in Tokens /\ call[q].given <= issued
    BY <1>2, <1>t DEF HoldsOf, FollowsOf, verifyAndRotate, At
  <2>2. CASE Follow(q, call[q].given)
    BY <1>k, <1>a, <1>g, <2>1, <2>2, FollowArrives DEF Explained
  <2>3. CASE state[call[q].given] = "old" /\ Goto(q, "alarm")
    <3>1. InUse(call[q].given)
      BY <1>2 DEF InUse, verifyAndRotate
    <3> QED BY <1>k, <1>a, <1>g, <2>1, <2>3, <3>1, Arrives DEF Explained
  <2> QED BY <1>k, <1>2, <2>2, <2>3, Arrives DEF verifyAndRotate, Idle
<1>3. CASE findLiveDescendant(q)
  <2>1. /\ call[q].given \in Tokens /\ call[q].given <= issued /\ call[q].row \in Tokens
        /\ root[call[q].row] = root[call[q].given]
    BY <1>3, <1>t DEF HoldsOf, FollowsOf, findLiveDescendant, At
  <2> QED
    BY <1>k, <1>3, <1>a, <1>g, <2>1, FollowArrives DEF findLiveDescendant, Explained
<1>4. CASE issueSession(q) \/ RotateCreates(q)
  <2>1. call'[q].at \in {"answer", "update"}
    BY <1>k, <1>4, CreateArrives
  <2> QED BY <2>1
<1>5. CASE \E b \in Browsers : SendRefresh(q, b)
  BY <1>k, <1>5 DEF SendRefresh, Idle
<1> QED BY <1>k, <1>1, <1>2, <1>3, <1>4, <1>5, NextMoves DEF CallStep, Idle

\* No race of a user's own requests is taken for the reuse of a stolen token, for any
\* number of tabs, requests and rotations.
THEOREM NoAlarmIsFalse == Spec => []NoFalseAlarm
<1>1. Init => AlarmInv
  BY InitKnown DEF Init, AlarmInv, Explained, NoFalseAlarm, Revoked, In, At, Idle
<1>2. AlarmInv /\ [Next]_vars => AlarmInv'
  <2>1. ASSUME AlarmInv, UNCHANGED vars PROVE AlarmInv'
    <3>1. Known'
      BY <2>1, KnownStep DEF AlarmInv
    <3>2. Explained' /\ NoFalseAlarm'
      BY <2>1 DEF AlarmInv, Explained, NoFalseAlarm, Revoked, InUse, In, At, vars, rows, ghosts
    <3> QED BY <3>1, <3>2 DEF AlarmInv
  <2>2. ASSUME AlarmInv, Next PROVE AlarmInv'
    BY <2>2, KnownStep, ExplainedStep, AlarmStep DEF AlarmInv
  <2> QED BY <2>1, <2>2
<1> QED BY <1>1, <1>2, PTL DEF Spec, AlarmInv

-----------------------------------------------------------------------------
(* Sessions that were ended *)

\* nothing of an ended session is left that escaped does not know of
Closed ==
  /\ \A k \in Tokens : Unrevoked(k) /\ root[k] \in ended => root[k] \in escaped
  /\ \A q \in Requests : call[q].at = "create" /\ root[call[q].row] \in ended
                           => q \in overlap \/ root[call[q].row] \in escaped

\* the ways in which a step ends sessions, and what of their history it keeps
LEMMA NextEnds ==
  ASSUME Known, Next
  PROVE  /\ \/ ended' = ended
            \/ revokeAllForUser
            \/ \E q \in Requests : revoke(q)
         /\ escaped \subseteq escaped'
         /\ \A q \in overlap : call'[q] = call[q] /\ call[q].at # "idle" => q \in overlap'
<1>1. ASSUME NEW q \in Requests, Serves(q)
      PROVE  /\ ended' = ended \/ revokeAllForUser \/ revoke(q)
             /\ escaped \subseteq escaped'
             /\ overlap \subseteq overlap' \/ (Ends(q) /\ overlap' = overlap \ {q})
  BY <1>1
  DEF Serves, CreateUser, issueSession, verifyAndRotate, findLiveDescendant, RotateCreates,
      RotateUpdates, Alarm, SetCookie, revoke, ClearCookie, MarkUsed, WritePassword,
      EndSessions, CreateToken, revokeAllForUser, Ends, ghosts
<1>2. ASSUME NEW q \in Requests, Dies(q)
      PROVE  /\ ended' = ended /\ escaped' = escaped
             /\ Ends(q) /\ overlap' = overlap \ {q}
  BY <1>2 DEF Dies, Ends
<1>3. ASSUME NEW q \in Requests, Sends(q)
      PROVE  UNCHANGED ghosts
  BY <1>3 DEF Sends, Signup, Login, SendRefresh, SendLogout, resetPassword
<1>4. ASSUME Environment, ~ \E q \in Requests : Dies(q)
      PROVE  UNCHANGED <<ended, escaped, overlap>>
  BY <1>4 DEF Environment, requestPasswordReset, LinkExpires, WindowCloses, TokenExpires, ghosts
<1>5. \A q \in Requests : Ends(q) /\ call[q].at # "idle" => call'[q] # call[q]
  BY Arrives DEF Idle
<1> QED BY <1>1, <1>2, <1>3, <1>4, <1>5 DEF Next, ghosts, Known, TypeOK

\* what a step ends is revoked by it, or noted as escaped
LEMMA EndsRevokes ==
  ASSUME Known, Next, NEW k \in Tokens, Unrevoked(k), Unrevoked(k)',
         root[k] \in ended', root[k] \notin ended
  PROVE  root[k] \in escaped'
<1>1. ~ revokeAllForUser
  BY DEF revokeAllForUser, Unrevoked
<1>2. PICK q \in Requests : revoke(q)
  BY <1>1, NextEnds
<1>3. call[q].given \in Tokens
  BY <1>2 DEF revoke, At, Known, Holding, HoldsOf
<1>4. k # call[q].given
  BY <1>2, <1>3 DEF revoke, Unrevoked, Known, TypeOK
<1>5. k \in OthersOf(call[q].given)
  BY <1>2, <1>4 DEF revoke, OthersOf
<1> QED BY <1>2, <1>5 DEF revoke

\* who issues a token
LEMMA NextIssues ==
  ASSUME Known, Next, NEW k \in Tokens, state[k] = "none", state'[k] = "live"
  PROVE  /\ k = issued + 1
         /\ \E q \in Requests : issueSession(q) \/ RotateCreates(q)
<1>1. Changes(k) /\ k = issued + 1
  BY NextChanges DEF Changes
<1>2. issued' # issued
  <2>1. k <= issued'
    BY NextRows, SessionAssumption DEF Numbered, TypeOK, Tokens
  <2> QED BY <1>1, <2>1, SessionAssumption DEF Known, TypeOK
<1> QED
  BY <1>1, <1>2
  DEF Next, Serves, Sends, Environment, CreateUser, verifyAndRotate, findLiveDescendant,
      RotateUpdates, Alarm, SetCookie, revoke, ClearCookie, MarkUsed, WritePassword,
      EndSessions, Signup, Login, SendRefresh, SendLogout, resetPassword,
      requestPasswordReset, LinkExpires, WindowCloses, TokenExpires, Dies, rows

\* what a new token is a token of
LEMMA IssuedRow ==
  ASSUME Known, NEW q \in Requests, NEW r \in Tokens, NEW p \in Nat, CreateToken(q, r, p)
  PROVE  /\ root'[issued + 1] = r /\ proof'[issued + 1] = p
         /\ q \in overlap => r \in escaped'
  BY CreateType DEF Known, TypeOK, CreateToken

LEMMA ClosedStep ==
  ASSUME Known, Closed, Next
  PROVE  Closed'
<1>t. /\ call \in [Requests -> Call] /\ issued \in Nat /\ Grows /\ escaped \subseteq escaped'
      /\ \A k \in Tokens : k \in Nat /\ k # NoToken
  <2>1. call \in [Requests -> Call] /\ issued \in Nat
    BY SessionAssumption DEF Known, TypeOK
  <2>2. \A k \in Tokens : k \in Nat /\ k # NoToken
    BY SessionAssumption DEF Tokens
  <2> QED BY <2>1, <2>2, NextRows, NextEnds
<1>1. ASSUME NEW k \in Tokens, Unrevoked(k)', root'[k] \in ended'
      PROVE  root'[k] \in escaped'
  <2>1. Changes(k)
    BY NextChanges
  <2>2. CASE Unrevoked(k)
    <3>1. root'[k] = root[k]
      BY <1>t, <2>2 DEF Grows, Unrevoked, Known, Numbered
    <3> QED BY <1>1, <1>t, <2>2, <3>1, EndsRevokes DEF Closed
  <2>3. CASE state[k] = "none" /\ state'[k] = "live"
    <3>1. k = issued + 1 /\ \E q \in Requests : issueSession(q) \/ RotateCreates(q)
      BY <2>3, NextIssues
    <3>2. ASSUME NEW q \in Requests, issueSession(q) PROVE FALSE
      <4>1. call[q].read \in Nat
        BY <1>t DEF Call
      <4>2. root'[k] = k /\ ended' = ended
        BY <3>1, <3>2, <4>1, IssuedRow DEF issueSession
      <4> QED BY <1>1, <1>t, <3>1, <4>2 DEF Known, Numbered
    <3>3. ASSUME NEW q \in Requests, RotateCreates(q) PROVE root'[k] \in escaped'
      <4>1. call[q].row \in Tokens /\ root[call[q].row] \in Tokens /\ proof[call[q].row] \in Nat
        BY <3>3 DEF RotateCreates, At, Known, TypeOK, Holding, HoldsOf
      <4>2. /\ root'[k] = root[call[q].row] /\ ended' = ended
            /\ q \in overlap => root'[k] \in escaped'
        BY <3>1, <3>3, <4>1, IssuedRow DEF RotateCreates
      <4> QED BY <1>1, <1>t, <3>3, <4>2 DEF RotateCreates, At, Closed
    <3> QED BY <3>1, <3>2, <3>3
  <2> QED BY <1>1, <2>1, <2>2, <2>3 DEF Changes, Unrevoked
<1>2. ASSUME NEW q \in Requests, call'[q].at = "create", root'[call'[q].row] \in ended'
      PROVE  q \in overlap' \/ root'[call'[q].row] \in escaped'
  <2>1. CASE call'[q] = call[q]
    <3>1. call[q].row \in Tokens /\ call[q].row <= issued
      BY <1>2, <2>1 DEF Known, Holding, HoldsOf, Followed, FollowsOf
    <3>2. root'[call[q].row] = root[call[q].row]
      BY <1>t, <3>1 DEF Grows
    <3>3. CASE root[call[q].row] \in ended
      BY <1>2, <1>t, <2>1, <3>2, <3>3, NextEnds DEF Closed
    <3>4. CASE root[call[q].row] \notin ended /\ revokeAllForUser
      BY <1>2, <2>1, <3>4 DEF revokeAllForUser, In, At
    <3>5. CASE root[call[q].row] \notin ended /\ \E p \in Requests : revoke(p)
      BY <1>2, <2>1, <3>2, <3>5 DEF revoke, In, At
    <3> QED BY <1>2, <2>1, <3>2, <3>3, <3>4, <3>5, NextEnds
  <2>2. CASE verifyAndRotate(q) \/ findLiveDescendant(q)
    <3>1. PICK k \in Tokens : /\ k <= issued
                              /\ Follow(q, k) \/ (state[k] = "live" /\ Keeps(q, "create", k))
      <4>1. CASE verifyAndRotate(q)
        BY <1>2, <4>1, Arrives DEF verifyAndRotate, At, Known, Holding, HoldsOf, Followed, FollowsOf, Idle
      <4>2. CASE findLiveDescendant(q)
        BY <4>2 DEF findLiveDescendant, At, Known, Holding, HoldsOf, Followed, FollowsOf
      <4> QED BY <2>2, <4>1, <4>2
    <3>2. call'[q].row = k /\ ~ Revoked(k)
      BY <1>2, <3>1, Arrives, FollowArrives DEF Revoked
    <3>3. Unrevoked(k)
      BY <1>t, <3>1, <3>2 DEF Revoked, Unrevoked, Known, TypeOK, TokenStates, Numbered
    <3>4. UNCHANGED <<root, ended, escaped>>
      BY <2>2 DEF verifyAndRotate, findLiveDescendant, rows, ghosts
    <3> QED BY <1>2, <3>2, <3>3, <3>4 DEF Closed
  <2>3. CASE issueSession(q) \/ RotateCreates(q)
    <3>1. call'[q].at \in {"answer", "update"}
      BY <2>3, CreateArrives
    <3> QED BY <1>2, <3>1
  <2>4. CASE \E b \in Browsers : SendRefresh(q, b)
    BY <1>2, <1>t, <2>4 DEF SendRefresh, Idle
  <2> QED BY <1>2, <2>1, <2>2, <2>3, <2>4, NextMoves DEF CallStep, Idle
<1> QED BY <1>1, <1>2 DEF Closed

\* An ended session stays ended but for a refresh that overlapped its end, for any
\* number of tabs and requests.
THEOREM EndedIsEnded == Spec => []EndedStaysEnded
<1>1. Init => Closed
  BY DEF Init, Closed, Unrevoked, Idle
<1>2. Known /\ Closed /\ [Next]_vars => Closed'
  <2>1. ASSUME Known, Closed, UNCHANGED vars PROVE Closed'
    BY <2>1 DEF Closed, Unrevoked, vars, rows, ghosts
  <2> QED BY <2>1, ClosedStep
<1>3. Closed => EndedStaysEnded
  BY DEF Closed, EndedStaysEnded, Unrevoked
<1> QED BY <1>1, <1>2, <1>3, KnownAlways, PTL DEF Spec

-----------------------------------------------------------------------------
(* After a password reset *)

\* a reset is in its last step, or died before it
Pending == In("revokeAll") \cup torn # {}

Current ==
  /\ ~ HasAccount => /\ issued = 0
                     /\ \A l \in Links : link[l] = "none"
                     /\ \A q \in Requests : call[q].at \notin {"issue", "mark", "write"}
  /\ \A k \in Tokens : Unrevoked(k) =>
       proof[k] = password \/ Pending \/ root[k] \in escaped
  /\ \A q \in Requests :
       /\ call[q].at = "issue" => call[q].read = password \/ Pending \/ q \in overlap
       /\ call[q].at = "create" => \/ proof[call[q].row] = password \/ Pending
                                   \/ q \in overlap \/ root[call[q].row] \in escaped

\* A reset stays pending until some reset ends the sessions.
LEMMA NextPending ==
  ASSUME Known, Next, Pending
  PROVE  Pending' \/ \E q \in Requests : EndSessions(q)
<1>1. CASE torn # {}
  BY <1>1
  DEF Pending, Next, Serves, Sends, Environment, CreateUser, issueSession, verifyAndRotate,
      findLiveDescendant, RotateCreates, RotateUpdates, Alarm, SetCookie, revoke,
      ClearCookie, MarkUsed, WritePassword, Signup, Login, SendRefresh, SendLogout,
      resetPassword, requestPasswordReset, LinkExpires, WindowCloses, TokenExpires, Dies, ghosts
<1>2. ASSUME NEW p \in Requests, call[p].at = "revokeAll" PROVE Pending' \/ EndSessions(p)
  <2>1. CASE call'[p] = call[p]
    BY <1>2, <2>1 DEF Pending, In, At
  <2>2. CASE Dies(p)
    BY <1>2, <2>2 DEF Pending, Dies, At
  <2>3. CASE Serves(p) \/ Sends(p)
    BY <1>2, <2>3
    DEF Serves, Sends, CreateUser, issueSession, verifyAndRotate, findLiveDescendant,
        RotateCreates, RotateUpdates, Alarm, SetCookie, revoke, ClearCookie, MarkUsed,
        WritePassword, Signup, Login, SendRefresh, SendLogout, resetPassword, At
  <2>4. ASSUME NEW q \in Requests \ {p}, Serves(q) \/ Sends(q) PROVE call'[p] = call[p]
    BY <2>4, NextRows, ServesMoves, SendsMoves DEF Moves
  <2>5. ASSUME NEW q \in Requests \ {p}, Dies(q) PROVE call'[p] = call[p]
    BY <2>5 DEF Dies, Ends, Known, TypeOK
  <2> QED
    BY <2>1, <2>2, <2>3, <2>4, <2>5
    DEF Next, Environment, requestPasswordReset, LinkExpires, WindowCloses, TokenExpires
<1> QED BY <1>1, <1>2 DEF Pending, In, At

\* The hash is written by a signup, before which there is nothing, and by a reset.
LEMMA NextPassword ==
  ASSUME Known, Next
  PROVE  \/ password' = password
         \/ Pending'
         \/ \E q \in Requests : CreateUser(q) /\ ~ HasAccount /\ password' = 1
<1>1. ASSUME NEW q \in Requests, WritePassword(q) PROVE Pending'
  BY <1>1, Arrives DEF WritePassword, Pending, In, At
<1> QED
  BY <1>1
  DEF Next, Serves, Sends, Environment, CreateUser, issueSession, verifyAndRotate,
      findLiveDescendant, RotateCreates, RotateUpdates, Alarm, SetCookie, revoke,
      ClearCookie, MarkUsed, EndSessions, Signup, Login, SendRefresh, SendLogout,
      resetPassword, requestPasswordReset, LinkExpires, WindowCloses, TokenExpires, Dies

LEMMA NextProofs ==
  ASSUME Known, Next, NEW k \in Tokens, k <= issued
  PROVE  proof'[k] = proof[k]
<1>1. issued \in Nat /\ k \in Nat
  BY SessionAssumption DEF Known, TypeOK, Tokens
<1>2. ASSUME NEW q \in Requests, NEW r, NEW p, CreateToken(q, r, p)
      PROVE  proof'[k] = proof[k]
  BY <1>1, <1>2 DEF CreateToken, Known, TypeOK
<1> QED
  BY <1>2
  DEF Next, Serves, Sends, Environment, CreateUser, issueSession, verifyAndRotate,
      findLiveDescendant, RotateCreates, RotateUpdates, Alarm, SetCookie, revoke,
      ClearCookie, MarkUsed, WritePassword, EndSessions, Signup, Login, SendRefresh,
      SendLogout, resetPassword, requestPasswordReset, LinkExpires, WindowCloses,
      TokenExpires, Dies, rows

\* What a reset does to the rows and the requests it finds.
LEMMA ResetEnds ==
  ASSUME Known, NEW p \in Requests, EndSessions(p)
  PROVE  /\ \A k \in Tokens : ~ Unrevoked(k)'
         /\ \A q \in Requests : \/ call'[q] = Idle
                                \/ /\ call'[q] = call[q]
                                   /\ call[q].at \in {"issue", "create"} => q \in overlap'
<1>1. \A k \in Tokens : ~ Unrevoked(k)'
  BY DEF EndSessions, revokeAllForUser, Unrevoked
<1>2. \A q \in Requests : call'[q] \in {Idle, call[q]}
  BY DEF EndSessions, Known, TypeOK
<1>3. \A q \in Requests : call[q].at \in {"issue", "create"} => q \in overlap'
  BY DEF EndSessions, revokeAllForUser, In, At
<1> QED BY <1>1, <1>2, <1>3

\* Before signup there is nothing to look after.
LEMMA NoAccountStep ==
  ASSUME Known, Current, Next, ~ HasAccount'
  PROVE  /\ issued' = 0
         /\ \A l \in Links : link'[l] = "none"
         /\ \A q \in Requests : call'[q].at \notin {"issue", "mark", "write"}
<1>t. call \in [Requests -> Call] /\ issued \in Nat /\ password \in Nat
      /\ \A k \in Tokens : k > 0
  BY SessionAssumption DEF Known, TypeOK, Tokens
<1>1. ~ HasAccount
  <2>1. password' = password \/ password' = 1 \/ \E q \in Requests : WritePassword(q)
    BY DEF Next, Serves, Sends, Environment, CreateUser, issueSession, verifyAndRotate,
           findLiveDescendant, RotateCreates, RotateUpdates, Alarm, SetCookie, revoke,
           ClearCookie, MarkUsed, EndSessions, Signup, Login, SendRefresh, SendLogout,
           resetPassword, requestPasswordReset, LinkExpires, WindowCloses, TokenExpires, Dies
  <2> QED BY <1>t, <2>1 DEF HasAccount, WritePassword
<1>2. /\ issued = 0 /\ \A l \in Links : link[l] = "none"
      /\ \A q \in Requests : call[q].at \notin {"issue", "mark", "write"}
  BY <1>1 DEF Current
<1>3. ASSUME NEW q \in Requests PROVE ~ issueSession(q) /\ ~ RotateCreates(q)
  <2>1. RotateCreates(q) => call[q].row \in Tokens /\ call[q].row <= issued
    BY DEF RotateCreates, At, Known, Holding, HoldsOf, Followed, FollowsOf
  <2> QED BY <1>t, <1>2, <2>1 DEF issueSession, At, Tokens
<1>4. issued' = 0
  BY <1>2, <1>3
  DEF Next, Serves, Sends, Environment, CreateUser, verifyAndRotate, findLiveDescendant,
      RotateUpdates, Alarm, SetCookie, revoke, ClearCookie, MarkUsed, WritePassword,
      EndSessions, Signup, Login, SendRefresh, SendLogout, resetPassword,
      requestPasswordReset, LinkExpires, WindowCloses, TokenExpires, Dies, rows
<1>5. link' = link
  BY <1>1, <1>2
  DEF Next, Serves, Sends, Environment, CreateUser, issueSession, verifyAndRotate,
      findLiveDescendant, RotateCreates, RotateUpdates, Alarm, SetCookie, revoke,
      ClearCookie, MarkUsed, WritePassword, EndSessions, Signup, Login, SendRefresh,
      SendLogout, resetPassword, requestPasswordReset, LinkExpires, WindowCloses,
      TokenExpires, Dies, At
<1>6. ASSUME NEW q \in Requests, call'[q].at \in {"issue", "mark", "write"} PROVE FALSE
  <2>1. call'[q] # call[q]
    BY <1>2, <1>6
  <2>2. ~ CreateUser(q) \/ call'[q].at # "issue"
    BY <1>1, <1>6 DEF CreateUser, HasAccount
  <2>3. \A b \in Browsers : ~ Login(q, b)
    BY <1>1 DEF Login
  <2>4. ~ MarkUsed(q) /\ \A l \in Links : ~ resetPassword(q, l)
    BY <1>2 DEF MarkUsed, At, resetPassword
  <2>5. verifyAndRotate(q) \/ findLiveDescendant(q) => call'[q].at \notin {"issue", "mark", "write"}
    BY Arrives, FollowArrives
    DEF verifyAndRotate, findLiveDescendant, At, Known, Holding, HoldsOf, Idle
  <2>6. ASSUME NEW b \in Browsers, SendRefresh(q, b) PROVE FALSE
    BY <1>t, <1>6, <2>6 DEF SendRefresh, Idle
  <2> QED BY <1>3, <1>6, <2>1, <2>2, <2>3, <2>4, <2>5, <2>6, NextMoves DEF CallStep, Idle
<1> QED BY <1>2, <1>4, <1>5, <1>6

\* What was current stays so, or the reset that changes that is pending, unless the
\* reset ends the sessions in this very step.
LEMMA StaysCurrent ==
  ASSUME Known, Current, Next, NEW n \in Nat, n = password \/ Pending, HasAccount
  PROVE  n = password' \/ Pending' \/ \E p \in Requests : EndSessions(p)
<1>1. CASE Pending
  BY <1>1, NextPending
<1>2. CASE n = password
  BY <1>2, NextPassword
<1> QED BY <1>1, <1>2

LEMMA CurrentTokens ==
  ASSUME Known, Current, Next, NEW k \in Tokens, Unrevoked(k)'
  PROVE  proof'[k] = password' \/ Pending' \/ root'[k] \in escaped'
<1>t. /\ call \in [Requests -> Call] /\ proof \in [Tokens -> Nat] /\ Grows /\ Changes(k)
      /\ escaped \subseteq escaped' /\ issued \in Nat /\ k \in Nat /\ k > 0
  <2>1. issued \in Nat /\ k \in Nat /\ k > 0
    BY SessionAssumption DEF Known, TypeOK, Tokens
  <2> QED BY <2>1, NextRows, NextChanges, NextEnds DEF Known, TypeOK
<1>e. \A p \in Requests : ~ EndSessions(p)
  BY ResetEnds
<1>1. CASE Unrevoked(k)
  <2>1. k <= issued
    BY <1>t, <1>1 DEF Unrevoked, Known, Numbered
  <2>2. proof'[k] = proof[k] /\ root'[k] = root[k] /\ HasAccount /\ proof[k] \in Nat
    BY <1>t, <2>1, NextProofs DEF Grows, Current
  <2> QED BY <1>t, <1>e, <1>1, <2>2, StaysCurrent DEF Current
<1>2. CASE state[k] = "none" /\ state'[k] = "live"
  <2>1. k = issued + 1
    BY <1>2, NextIssues
  <2>2. ASSUME NEW q \in Requests, issueSession(q)
        PROVE  proof'[k] = password' \/ Pending' \/ root'[k] \in escaped'
    <3>1. call[q].read \in Nat /\ issued + 1 \in Tokens /\ call[q].at = "issue"
      BY <1>t, <2>1, <2>2 DEF issueSession, At, Call
    <3>2. proof'[k] = call[q].read /\ (q \in overlap => root'[k] \in escaped')
      BY <2>1, <2>2, <3>1, IssuedRow DEF issueSession
    <3>3. HasAccount /\ (call[q].read = password \/ Pending \/ q \in overlap)
      BY <3>1 DEF Current
    <3> QED BY <1>e, <3>1, <3>2, <3>3, StaysCurrent
  <2>3. ASSUME NEW q \in Requests, RotateCreates(q)
        PROVE  proof'[k] = password' \/ Pending' \/ root'[k] \in escaped'
    <3>1. /\ call[q].row \in Tokens /\ root[call[q].row] \in Tokens /\ proof[call[q].row] \in Nat
          /\ call[q].at = "create" /\ call[q].row <= issued
      BY <2>3 DEF RotateCreates, At, Known, TypeOK, Holding, HoldsOf, Followed, FollowsOf
    <3>2. /\ proof'[k] = proof[call[q].row] /\ root'[k] = root[call[q].row]
          /\ q \in overlap => root'[k] \in escaped'
      BY <2>1, <2>3, <3>1, IssuedRow DEF RotateCreates
    <3>3. HasAccount
      BY <1>t, <3>1 DEF Current, Tokens
    <3>4. \/ proof[call[q].row] = password \/ Pending
          \/ q \in overlap \/ root[call[q].row] \in escaped
      BY <3>1 DEF Current
    <3> QED BY <1>e, <1>t, <3>1, <3>2, <3>3, <3>4, StaysCurrent
  <2> QED BY <1>2, <2>2, <2>3, NextIssues
<1> QED BY <1>t, <1>1, <1>2 DEF Changes, Unrevoked

LEMMA CurrentLogins ==
  ASSUME Known, Current, Next, NEW q \in Requests, call'[q].at = "issue"
  PROVE  call'[q].read = password' \/ Pending' \/ q \in overlap'
<1>t. call \in [Requests -> Call] /\ password \in Nat
  BY DEF Known, TypeOK
<1>1. CASE call'[q] = call[q]
  <2>1. HasAccount /\ call[q].read \in Nat
    BY <1>t, <1>1 DEF Current, Call
  <2>2. q \in overlap => q \in overlap'
    BY <1>1, NextEnds
  <2>3. ASSUME NEW p \in Requests, EndSessions(p) PROVE q \in overlap'
    BY <1>1, <2>3, ResetEnds DEF Idle
  <2> QED BY <1>1, <2>1, <2>2, <2>3, StaysCurrent DEF Current
<1>2. CASE CreateUser(q)
  <2>1. ~ HasAccount
    BY <1>2, Arrives DEF CreateUser, Idle
  <2> QED BY <1>t, <1>2, <2>1 DEF CreateUser, Call
<1>3. CASE \E b \in Browsers : Login(q, b)
  BY <1>t, <1>3 DEF Login, Idle
<1>4. ASSUME verifyAndRotate(q) \/ findLiveDescendant(q) PROVE FALSE
  BY <1>4, Arrives, FollowArrives
  DEF verifyAndRotate, findLiveDescendant, At, Known, Holding, HoldsOf, Idle
<1>5. ASSUME issueSession(q) \/ RotateCreates(q) PROVE FALSE
  BY <1>5, CreateArrives
<1>6. ASSUME NEW b \in Browsers, SendRefresh(q, b) PROVE FALSE
  BY <1>t, <1>6 DEF SendRefresh, Idle
<1> QED BY <1>1, <1>2, <1>3, <1>4, <1>5, <1>6, NextMoves DEF CallStep, Idle

LEMMA CurrentRotations ==
  ASSUME Known, Current, Next, NEW q \in Requests, call'[q].at = "create"
  PROVE  \/ proof'[call'[q].row] = password' \/ Pending'
         \/ q \in overlap' \/ root'[call'[q].row] \in escaped'
<1>t. /\ call \in [Requests -> Call] /\ issued \in Nat /\ Grows /\ escaped \subseteq escaped'
      /\ \A k \in Tokens : k > 0 /\ k \in Nat
  <2>1. issued \in Nat /\ call \in [Requests -> Call]
    BY SessionAssumption DEF Known, TypeOK
  <2>2. \A k \in Tokens : k > 0 /\ k \in Nat
    BY SessionAssumption DEF Tokens
  <2> QED BY <2>1, <2>2, NextRows, NextEnds
<1>1. CASE call'[q] = call[q]
  <2>1. call[q].row \in Tokens /\ call[q].row <= issued
    BY <1>1 DEF Known, Holding, HoldsOf, Followed, FollowsOf
  <2>2. /\ proof'[call[q].row] = proof[call[q].row] /\ root'[call[q].row] = root[call[q].row]
        /\ proof[call[q].row] \in Nat /\ HasAccount
    BY <1>t, <2>1, NextProofs DEF Grows, Known, TypeOK, Current
  <2>3. q \in overlap => q \in overlap'
    BY <1>1, NextEnds
  <2>4. ASSUME NEW p \in Requests, EndSessions(p) PROVE q \in overlap'
    BY <1>1, <2>4, ResetEnds DEF Idle
  <2> QED BY <1>1, <1>t, <2>2, <2>3, <2>4, StaysCurrent DEF Current
<1>2. CASE call'[q] # call[q] /\ (verifyAndRotate(q) \/ findLiveDescendant(q))
  <2>1. PICK k \in Tokens : k <= issued /\ call'[q].row = k /\ Unrevoked(k)
    <3>1. PICK k \in Tokens : /\ k <= issued
                              /\ Follow(q, k) \/ (state[k] = "live" /\ Keeps(q, "create", k))
      <4>1. CASE verifyAndRotate(q)
        BY <4>1, Arrives DEF verifyAndRotate, At, Known, Holding, HoldsOf, Followed, FollowsOf, Idle
      <4>2. CASE findLiveDescendant(q)
        BY <4>2 DEF findLiveDescendant, At, Known, Holding, HoldsOf, Followed, FollowsOf
      <4> QED BY <1>2, <4>1, <4>2
    <3>2. call'[q].row = k /\ ~ Revoked(k)
      BY <3>1, Arrives, FollowArrives DEF Revoked
    <3> QED BY <1>t, <3>1, <3>2 DEF Revoked, Unrevoked, Known, TypeOK, TokenStates, Numbered
  <2>2. /\ proof'[k] = proof[k] /\ root'[k] = root[k]
        /\ proof[k] \in Nat /\ HasAccount
    BY <1>t, <2>1, NextProofs DEF Grows, Known, TypeOK, Current
  <2>3. ASSUME NEW p \in Requests, EndSessions(p) PROVE FALSE
    BY <1>2, <2>3, ResetEnds DEF Idle
  <2> QED BY <1>t, <2>1, <2>2, <2>3, StaysCurrent DEF Current
<1>3. ASSUME issueSession(q) \/ RotateCreates(q) PROVE FALSE
  BY <1>3, CreateArrives
<1>4. ASSUME NEW b \in Browsers, SendRefresh(q, b) PROVE FALSE
  BY <1>t, <1>4 DEF SendRefresh, Idle
<1> QED BY <1>1, <1>2, <1>3, <1>4, NextMoves DEF CallStep, Idle

\* No session outlives a reset of the password unless the reset stopped half-way or
\* a login or refresh overlapped it, for any number of resets and sessions.
THEOREM ResetEndsSessions == Spec => []NothingOutlivesReset
<1>1. Init => Current
  BY DEF Init, Current, Unrevoked, HasAccount, Idle
<1>2. Known /\ Current /\ [Next]_vars => Current'
  <2>1. ASSUME Known, Current, UNCHANGED vars PROVE Current'
    BY <2>1 DEF Current, Unrevoked, HasAccount, Pending, In, At, vars, rows, ghosts
  <2>2. ASSUME Known, Current, Next PROVE Current'
    BY <2>2, NoAccountStep, CurrentTokens, CurrentLogins, CurrentRotations DEF Current
  <2> QED BY <2>1, <2>2
<1>3. Current => NothingOutlivesReset
  BY DEF Current, NothingOutlivesReset, Unrevoked, Pending
<1> QED BY <1>1, <1>2, <1>3, KnownAlways, PTL DEF Spec

-----------------------------------------------------------------------------
(* One live token *)

Alive(s) == {k \in Tokens : Unrevoked(k) /\ root[k] = s}
Rotating(s) == {q \in In("update") : root[call[q].row] = s}

\* OneLiveToken, of the tokens that are past their expiry too
Counted ==
  \A s \in Tokens \ forked : Cardinality(Alive(s)) <= 1 + Cardinality(Rotating(s))

LEMMA FiniteCounts ==
  ASSUME NEW s
  PROVE  /\ IsFiniteSet(Alive(s)) /\ IsFiniteSet(Rotating(s))
         /\ IsFiniteSet(Alive(s))' /\ IsFiniteSet(Rotating(s))'
<1>1. IsFiniteSet(Tokens) /\ IsFiniteSet(Requests)
  BY FS_Interval, SessionAssumption DEF Tokens
<1>2. /\ Alive(s) \subseteq Tokens /\ Rotating(s) \subseteq Requests
      /\ Alive(s)' \subseteq Tokens /\ Rotating(s)' \subseteq Requests
  BY DEF Alive, Rotating, In
<1> QED BY <1>1, <1>2, FS_Subset

\* who stops to rotate a row, and that a rotation that dies is noted
LEMMA NextRotating ==
  ASSUME Known, Next, NEW q \in Requests, call[q].at = "update"
  PROVE  /\ forked \subseteq forked'
         /\ \/ call'[q] = call[q]
            \/ RotateUpdates(q)
            \/ root[call[q].row] \in forked'
<1>1. forked \subseteq forked'
  BY DEF Next, Serves, Sends, Environment, CreateUser, issueSession, verifyAndRotate,
         findLiveDescendant, RotateCreates, RotateUpdates, Alarm, SetCookie, revoke,
         ClearCookie, MarkUsed, WritePassword, EndSessions, Signup, Login, SendRefresh,
         SendLogout, resetPassword, requestPasswordReset, LinkExpires, WindowCloses,
         TokenExpires, Dies, ghosts
<1>2. CASE Serves(q) \/ Sends(q)
  BY <1>1, <1>2
  DEF Serves, Sends, CreateUser, issueSession, verifyAndRotate, findLiveDescendant,
      RotateCreates, Alarm, SetCookie, revoke, ClearCookie, MarkUsed, WritePassword,
      EndSessions, Signup, Login, SendRefresh, SendLogout, resetPassword, At
<1>3. CASE Dies(q)
  BY <1>1, <1>3 DEF Dies, At
<1>4. ASSUME NEW p \in Requests \ {q}, Serves(p) \/ Sends(p) PROVE call'[q] = call[q]
  BY <1>4, NextRows, ServesMoves, SendsMoves DEF Moves
<1>5. ASSUME NEW p \in Requests \ {q}, Dies(p) PROVE call'[q] = call[q]
  BY <1>5 DEF Dies, Ends, Known, TypeOK
<1> QED
  BY <1>1, <1>2, <1>3, <1>4, <1>5
  DEF Next, Environment, requestPasswordReset, LinkExpires, WindowCloses, TokenExpires

LEMMA ForkedGrows == ASSUME Next PROVE forked \subseteq forked'
  BY DEF Next, Serves, Sends, Environment, CreateUser, issueSession, verifyAndRotate,
         findLiveDescendant, RotateCreates, RotateUpdates, Alarm, SetCookie, revoke,
         ClearCookie, MarkUsed, WritePassword, EndSessions, Signup, Login, SendRefresh,
         SendLogout, resetPassword, requestPasswordReset, LinkExpires, WindowCloses,
         TokenExpires, Dies, ghosts

LEMMA CountedStep ==
  ASSUME Known, Counted, Next
  PROVE  Counted'
<1> SUFFICES ASSUME NEW s \in Tokens, s \notin forked'
             PROVE  Cardinality(Alive(s)') <= 1 + Cardinality(Rotating(s)')
  BY DEF Counted
<1>f. /\ IsFiniteSet(Alive(s)) /\ IsFiniteSet(Rotating(s))
      /\ IsFiniteSet(Alive(s)') /\ IsFiniteSet(Rotating(s)')
      /\ Cardinality(Alive(s)) \in Nat /\ Cardinality(Rotating(s)) \in Nat
      /\ Cardinality(Alive(s)') \in Nat /\ Cardinality(Rotating(s)') \in Nat
  BY FiniteCounts, FS_CardinalityType
<1>h. Cardinality(Alive(s)) <= 1 + Cardinality(Rotating(s))
  BY ForkedGrows DEF Counted
<1>t. /\ call \in [Requests -> Call] /\ issued \in Nat /\ Grows
      /\ \A k \in Tokens : k \in Nat /\ k > 0 /\ k # NoToken
  <2>1. call \in [Requests -> Call] /\ issued \in Nat
    BY SessionAssumption DEF Known, TypeOK
  <2>2. \A k \in Tokens : k \in Nat /\ k > 0 /\ k # NoToken
    BY SessionAssumption DEF Tokens
  <2> QED BY <2>1, <2>2, NextRows
\* a token that stays unrevoked is of the same session
<1>k. \A k \in Tokens : Unrevoked(k) => k <= issued /\ root'[k] = root[k]
  BY <1>t DEF Unrevoked, Known, Numbered, Grows
<1>a. \A k \in Alive(s)' : \/ k \in Alive(s)
                           \/ state[k] = "none" /\ state'[k] = "live"
  BY <1>k, NextChanges DEF Alive, Changes, Unrevoked
\* a rotation under way stays so, unless it is the one that ends now
<1>r. \A q \in Rotating(s) : RotateUpdates(q) \/ q \in Rotating(s)'
  <2> TAKE q \in Rotating(s)
  <2>1. /\ q \in Requests /\ call[q].at = "update" /\ root[call[q].row] = s
        /\ call[q].row \in Tokens /\ call[q].row <= issued
    BY DEF Rotating, In, At, Known, Holding, HoldsOf, Followed, FollowsOf
  <2>2. call'[q] = call[q] \/ RotateUpdates(q)
    BY <2>1, NextRotating
  <2> QED BY <1>t, <2>1, <2>2 DEF Rotating, In, At, Grows
<1>1. CASE \E q \in Requests : RotateCreates(q) /\ root[call[q].row] = s
  <2>1. PICK q \in Requests : RotateCreates(q) /\ root[call[q].row] = s
    BY <1>1
  <2>2. /\ call[q].at = "create" /\ call[q].row \in Tokens /\ call[q].row <= issued
        /\ call'[q].at = "update" /\ call'[q].row = call[q].row
    BY <1>t, <2>1 DEF RotateCreates, At, Known, Holding, HoldsOf, Followed, FollowsOf, Call
  <2>3. q \in Rotating(s)' /\ q \notin Rotating(s)
    BY <1>t, <2>1, <2>2 DEF Rotating, In, At, Grows
  <2>4. \A p \in Requests : ~ RotateUpdates(p)
    BY <1>t, <2>1 DEF RotateUpdates, RotateCreates, CreateToken, rows
  <2>5. Rotating(s) \cup {q} \subseteq Rotating(s)'
    BY <1>r, <2>3, <2>4 DEF Rotating, In
  <2>6. Cardinality(Rotating(s)) + 1 <= Cardinality(Rotating(s)')
    BY <1>f, <2>3, <2>5, FS_AddElement, FS_Subset
  <2>7. Alive(s)' \subseteq Alive(s) \cup {issued + 1}
    BY <1>a, NextIssues DEF Alive
  <2>8. Cardinality(Alive(s)') <= Cardinality(Alive(s)) + 1
    <3> DEFINE S == Alive(s) \cup {issued + 1}
    <3>0. /\ IsFiniteSet(S)
          /\ Cardinality(S) \in {Cardinality(Alive(s)), Cardinality(Alive(s)) + 1}
      BY <1>f, FS_AddElement, Zenon
    <3>1. IsFiniteSet(S) /\ Cardinality(S) <= Cardinality(Alive(s)) + 1
      <4> HIDE DEF S
      <4> QED BY <1>f, <3>0
    <3>2. Cardinality(Alive(s)') <= Cardinality(S) /\ Cardinality(S) \in Nat
      BY <2>7, <3>1, FS_Subset, FS_CardinalityType
    <3> HIDE DEF S
    <3> QED BY <1>f, <3>1, <3>2
  <2> QED BY <1>f, <1>h, <2>6, <2>8
<1>2. CASE \E q \in Requests : issueSession(q) /\ s = issued + 1
  <2>1. PICK q \in Requests : issueSession(q) /\ s = issued + 1
    BY <1>2
  <2>2. Alive(s) = {}
    <3> SUFFICES ASSUME NEW k \in Alive(s) PROVE FALSE
      OBVIOUS
    <3>1. k \in Tokens /\ k <= issued /\ root[k] <= k /\ root[k] = issued + 1
      BY <1>k, <2>1 DEF Alive, Known, Numbered
    <3> QED BY <1>t, <3>1
  <2>3. Alive(s)' \subseteq {issued + 1}
    BY <1>a, <2>2, NextIssues DEF Alive
  <2>4. Cardinality(Alive(s)') <= 1
    <3>1. IsFiniteSet({issued + 1}) /\ Cardinality({issued + 1}) = 1
      BY FS_Singleton
    <3> QED BY <2>3, <3>1, FS_Subset
  <2> QED BY <1>f, <2>4
<1>3. CASE \E q \in Requests : RotateUpdates(q) /\ root[call[q].row] = s
  <2>1. PICK q \in Requests : RotateUpdates(q) /\ root[call[q].row] = s
    BY <1>3
  <2>2. /\ call[q].at = "update" /\ call[q].row \in Tokens /\ call[q].row <= issued
    BY <2>1 DEF RotateUpdates, At, Known, Holding, HoldsOf, Followed, FollowsOf
  <2>3. call[q].row \in Alive(s)
    BY <1>t, <2>1, <2>2
    DEF RotateUpdates, Alive, Revoked, Unrevoked, Known, TypeOK, TokenStates, Numbered
  <2>4. Alive(s)' \subseteq Alive(s) \ {call[q].row}
    <3>1. state' = [state EXCEPT ![call[q].row] = "recent"] /\ root' = root
      BY <2>1 DEF RotateUpdates
    <3> QED BY <2>2, <3>1 DEF Alive, Unrevoked, Known, TypeOK
  <2>5. Cardinality(Alive(s)') <= Cardinality(Alive(s)) - 1
    BY <1>f, <2>3, <2>4, FS_RemoveElement, FS_Subset
  <2>6. Rotating(s) \ {q} \subseteq Rotating(s)'
    BY <1>t, <2>1 DEF RotateUpdates, Rotating, In, At
  <2>7. q \in Rotating(s)
    BY <2>1, <2>2 DEF Rotating, In, At
  <2>8. Cardinality(Rotating(s)) - 1 <= Cardinality(Rotating(s)')
    <3> DEFINE S == Rotating(s) \ {q}
    <3>1. IsFiniteSet(S) /\ Cardinality(S) = Cardinality(Rotating(s)) - 1
      BY <1>f, <2>7, FS_RemoveElement
    <3>2. Cardinality(S) <= Cardinality(Rotating(s)')
      BY <1>f, <2>6, FS_Subset
    <3> QED BY <3>1, <3>2
  <2> QED BY <1>f, <1>h, <2>5, <2>8
<1>4. CASE /\ ~ \E q \in Requests : RotateCreates(q) /\ root[call[q].row] = s
           /\ ~ \E q \in Requests : issueSession(q) /\ s = issued + 1
           /\ ~ \E q \in Requests : RotateUpdates(q) /\ root[call[q].row] = s
  <2>1. Rotating(s) \subseteq Rotating(s)'
    BY <1>r, <1>4 DEF Rotating, In
  <2>2. ASSUME NEW k \in Alive(s)', state[k] = "none", state'[k] = "live" PROVE FALSE
    <3>1. k \in Tokens /\ k = issued + 1 /\ root'[k] = s
      BY <2>2, NextIssues DEF Alive
    <3>2. ASSUME NEW q \in Requests, issueSession(q) PROVE FALSE
      <4>1. call[q].read \in Nat
        BY <1>t DEF Call
      <4>2. root'[k] = k
        BY <3>1, <3>2, <4>1, IssuedRow DEF issueSession
      <4> QED BY <1>4, <3>1, <3>2, <4>2
    <3>3. ASSUME NEW q \in Requests, RotateCreates(q) PROVE FALSE
      <4>1. call[q].row \in Tokens /\ root[call[q].row] \in Tokens /\ proof[call[q].row] \in Nat
        BY <3>3 DEF RotateCreates, At, Known, TypeOK, Holding, HoldsOf
      <4>2. root'[k] = root[call[q].row]
        BY <3>1, <3>3, <4>1, IssuedRow DEF RotateCreates
      <4> QED BY <1>4, <3>1, <3>3, <4>2
    <3> QED BY <2>2, <3>1, <3>2, <3>3, NextIssues
  <2>3. Alive(s)' \subseteq Alive(s)
    BY <1>a, <2>2
  <2> QED BY <1>f, <1>h, <2>1, <2>3, FS_Subset
<1> QED BY <1>1, <1>2, <1>3, <1>4

\* A session has one live token and one more for each rotation under way, for any
\* number of rotations, unless two of them took the same row or one died half-way.
THEOREM OneTokenIsLive == Spec => []OneLiveToken
<1>1. Init => Counted
  <2> SUFFICES ASSUME Init, NEW s \in Tokens
               PROVE  Cardinality(Alive(s)) <= 1 + Cardinality(Rotating(s))
    BY DEF Counted
  <2>1. Alive(s) = {}
    BY DEF Init, Alive, Unrevoked
  <2>2. Cardinality(Alive(s)) = 0 /\ Cardinality(Rotating(s)) \in Nat
    BY <2>1, FS_EmptySet, FS_CardinalityType, FiniteCounts
  <2> QED BY <2>2
<1>2. Known /\ Counted /\ [Next]_vars => Counted'
  <2>1. ASSUME Counted, UNCHANGED vars PROVE Counted'
    BY <2>1 DEF Counted, Alive, Rotating, Unrevoked, In, At, vars, rows, ghosts
  <2> QED BY <2>1, CountedStep
<1>3. Counted => OneLiveToken
  <2> SUFFICES ASSUME Counted, NEW s \in Tokens \ forked
               PROVE  Cardinality(Live(s)) <= 1 + Cardinality(Rotating(s))
    BY DEF OneLiveToken, Rotating
  <2>1. Live(s) \subseteq Alive(s)
    BY DEF Live, Alive, Unrevoked
  <2>2. Cardinality(Live(s)) <= Cardinality(Alive(s)) /\ Cardinality(Live(s)) \in Nat
    BY <2>1, FiniteCounts, FS_Subset, FS_CardinalityType
  <2>3. Cardinality(Alive(s)) \in Nat /\ Cardinality(Rotating(s)) \in Nat
    BY FiniteCounts, FS_CardinalityType
  <2> QED BY <2>2, <2>3 DEF Counted
<1> QED BY <1>1, <1>2, <1>3, KnownAlways, PTL DEF Spec

=============================================================================
