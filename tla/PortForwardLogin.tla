-------------------------- MODULE PortForwardLogin --------------------------
(***************************************************************************)
(* The mappings of one port-forward window log in concurrently, each on    *)
(* its own connection, but build their logins from the window's one        *)
(* LoginConfigHandler (lc).  A mapping fills lc and builds its login under *)
(* the window's turn lock.  What the user types is broadcast to every      *)
(* mapping and may reach one before that connection's Hash does.           *)
(*                                                                         *)
(* Every acquisition of lc's lock is a step of its own.  Passwords are the *)
(* order in which the user typed them, Saved the one in the peer's         *)
(* configuration, Shared the one of a shared address book; a mapping's     *)
(* name stands for its target and challenge.                               *)
(***************************************************************************)
EXTENDS Naturals, Sequences

CONSTANTS
    Mappings,
    Probing,    \* the mappings that ask for the tunnel (Claim::Claimed)
    HasSaved,   \* whether a password is saved for the peer
    HasShared,  \* whether the window was opened with a shared password
    MaxTyped,   \* bound: times the user answers the prompt
    Blank,      \* the answers that leave the password empty
    MaxLogins,  \* bound: times a peer turns a login down
    None

ASSUME LoginAssumption ==
    /\ Probing \subseteq Mappings /\ HasSaved \in BOOLEAN /\ HasShared \in BOOLEAN
    /\ MaxTyped \in Nat /\ Blank \subseteq 1 .. MaxTyped /\ MaxLogins \in Nat
    /\ None \notin Mappings /\ None \notin Nat

Empty == 0
Typed == 1 .. MaxTyped
Saved == MaxTyped + 1
Shared == MaxTyped + 2

VARIABLES
    lc,         \* the shared handler: target, mux, hash, password, shared_password
    turn,       \* port_forward_login_turn
    pc,         \* per mapping: where its login loop is
    challenge,  \* per mapping: its connection's Hash has arrived
    pending,    \* per mapping: pending_login
    login,      \* per mapping: the typed password being used, None for a Hash
    answer,     \* per mapping: the challenge and password hashed together
    uiq,        \* per mapping: its queue of typed passwords
    sent,       \* per mapping: the last login sent, <<>> before the first
    refused,    \* per mapping: logins turned down
    typed       \* passwords typed so far

loginVars == <<lc, turn, pc, challenge, pending, login, answer, uiq, sent, refused, typed>>

LoginInit ==
    /\ lc = [target |-> None, mux |-> FALSE, hash |-> None, password |-> Empty,
             shared_password |-> IF HasShared THEN Shared ELSE Empty]
    /\ turn = None
    /\ pc = [m \in Mappings |-> "select"]
    /\ challenge = [m \in Mappings |-> FALSE]
    /\ pending = [m \in Mappings |-> None] /\ login = [m \in Mappings |-> None]
    /\ answer = [m \in Mappings |-> <<None, Empty>>]
    /\ uiq = [m \in Mappings |-> <<>>] /\ sent = [m \in Mappings |-> <<>>]
    /\ refused = [m \in Mappings |-> 0] /\ typed = 0

\* The window sends what the user typed to every mapping's queue.
Type ==
    /\ typed < MaxTyped
    /\ typed' = typed + 1
    /\ uiq' = [m \in Mappings |-> Append(uiq[m], typed')]
    /\ UNCHANGED <<lc, turn, pc, challenge, pending, login, answer, sent, refused>>

----------------------------------------------------------------------------
(* The login loop of a mapping's connection. *)

\* hash_arrived: a password typed meanwhile answers the Hash.
HashArrives(m) ==
    /\ pc[m] = "select" /\ ~challenge[m]
    /\ challenge' = [challenge EXCEPT ![m] = TRUE]
    /\ login' = [login EXCEPT ![m] = pending[m]]
    /\ pending' = [pending EXCEPT ![m] = None]
    /\ pc' = [pc EXCEPT ![m] = "wait_turn"]
    /\ UNCHANGED <<lc, turn, answer, uiq, sent, refused, typed>>

LoginTypedEarlyLost(m) ==
    /\ pc[m] = "select" /\ uiq[m] # <<>>
    /\ uiq' = [uiq EXCEPT ![m] = Tail(@)]
    /\ IF challenge[m]
         THEN /\ login' = [login EXCEPT ![m] = Head(uiq[m])]
              /\ pc' = [pc EXCEPT ![m] = "wait_turn"]
         ELSE UNCHANGED <<login, pc>>
    /\ UNCHANGED <<lc, turn, challenge, pending, answer, sent, refused, typed>>

\* The UI arm.
LoginTyped(m) ==
    /\ pc[m] = "select" /\ uiq[m] # <<>>
    /\ uiq' = [uiq EXCEPT ![m] = Tail(@)]
    /\ IF challenge[m]
         THEN /\ login' = [login EXCEPT ![m] = Head(uiq[m])]
              /\ pc' = [pc EXCEPT ![m] = "wait_turn"]
              /\ UNCHANGED pending
         ELSE /\ pending' = [pending EXCEPT ![m] = Head(uiq[m])]
              /\ UNCHANGED <<login, pc>>
    /\ UNCHANGED <<lc, turn, challenge, answer, sent, refused, typed>>

TakeTurnUnlocked(m) ==
    /\ pc[m] = "wait_turn"
    /\ turn' = m
    /\ pc' = [pc EXCEPT ![m] = IF login[m] = None THEN "fill_target" ELSE "fill_all"]
    /\ UNCHANGED <<lc, challenge, pending, login, answer, uiq, sent, refused, typed>>

TakeTurn(m) ==
    /\ pc[m] = "wait_turn" /\ turn = None
    /\ turn' = m
    /\ pc' = [pc EXCEPT ![m] = IF login[m] = None THEN "fill_target" ELSE "fill_all"]
    /\ UNCHANGED <<lc, challenge, pending, login, answer, uiq, sent, refused, typed>>

\* login_with_hash fills the target and the mode one after the other,
FillTarget(m) ==
    /\ pc[m] = "fill_target"
    /\ lc' = [lc EXCEPT !.target = m]
    /\ pc' = [pc EXCEPT ![m] = "fill_mux"]
    /\ UNCHANGED <<turn, challenge, pending, login, answer, uiq, sent, refused, typed>>

FillMux(m) ==
    /\ pc[m] = "fill_mux"
    /\ lc' = [lc EXCEPT !.mux = m \in Probing]
    /\ pc' = [pc EXCEPT ![m] = "handle_hash"]
    /\ UNCHANGED <<turn, challenge, pending, login, answer, uiq, sent, refused, typed>>

\* login_from_ui all of it at once.
FillAll(m) ==
    /\ pc[m] = "fill_all"
    /\ lc' = [lc EXCEPT !.target = m, !.mux = m \in Probing, !.hash = m]
    /\ pc' = [pc EXCEPT ![m] = "handle_login"]
    /\ UNCHANGED <<turn, challenge, pending, login, answer, uiq, sent, refused, typed>>

\* The last password, else the saved one.
LastOrSaved == IF lc.password # Empty THEN lc.password ELSE IF HasSaved THEN Saved ELSE Empty

\* handle_hash: the shared password the first time, else the last one, else one
\* the window has from elsewhere (the preset, the peer's configuration, an address
\* book, the built-in default), else an empty login and a prompt; the challenge is
\* the caller's.
HandleHash(m) ==
    /\ pc[m] = "handle_hash"
    /\ LET password == IF lc.shared_password # Empty THEN lc.shared_password ELSE LastOrSaved
       IN  /\ lc' = [lc EXCEPT !.hash = m, !.password = password, !.shared_password = Empty]
           /\ answer' = [answer EXCEPT ![m] = <<m, password>>]
    /\ pc' = [pc EXCEPT ![m] = "build"]
    /\ UNCHANGED <<turn, challenge, pending, login, uiq, sent, refused, typed>>

\* handle_login_from_ui: what was typed, or what there is when nothing was; the
\* challenge is the handler's.
HandleLogin(m) ==
    /\ pc[m] = "handle_login"
    /\ LET password == IF login[m] \in Blank THEN LastOrSaved ELSE login[m]
       IN  /\ lc' = [lc EXCEPT !.password = password]
           /\ answer' = [answer EXCEPT ![m] = <<lc.hash, password>>]
    /\ pc' = [pc EXCEPT ![m] = "build"]
    /\ UNCHANGED <<turn, challenge, pending, login, uiq, sent, refused, typed>>

\* send_login: create_login_msg reads lc, then the send is awaited.
SendLogin(m) ==
    /\ pc[m] = "build"
    /\ sent' = [sent EXCEPT ![m] = <<[target |-> lc.target, mux |-> lc.mux,
                                     challenge |-> answer[m][1], password |-> answer[m][2]]>>]
    /\ pc' = [pc EXCEPT ![m] = "sending"]
    /\ UNCHANGED <<lc, turn, challenge, pending, login, answer, uiq, refused, typed>>

\* handle_hash stores its hash once more on its way out; the turn is over.
EndTurn(m) ==
    /\ pc[m] = "sending"
    /\ lc' = IF login[m] = None THEN [lc EXCEPT !.hash = m] ELSE lc
    /\ turn' = None
    /\ pc' = [pc EXCEPT ![m] = "select"]
    /\ UNCHANGED <<challenge, pending, login, answer, uiq, sent, refused, typed>>

\* The peer's answer: PeerInfo, or an error that clears the last password and
\* prompts again, outside the turn.
LoginAccepted(m) ==
    /\ pc[m] = "select" /\ sent[m] # <<>>
    /\ pc' = [pc EXCEPT ![m] = "in"]
    /\ UNCHANGED <<lc, turn, challenge, pending, login, answer, uiq, sent, refused, typed>>

LoginRefused(m) ==
    /\ pc[m] = "select" /\ sent[m] # <<>> /\ refused[m] < MaxLogins
    /\ refused' = [refused EXCEPT ![m] = @ + 1]
    /\ lc' = [lc EXCEPT !.password = Empty]
    /\ UNCHANGED <<turn, pc, challenge, pending, login, answer, uiq, sent, typed>>

\* The connection fails or times out, or the login is refused for good.
ConnectionLost(m) ==
    /\ pc[m] = "select"
    /\ pc' = [pc EXCEPT ![m] = "gone"]
    /\ UNCHANGED <<lc, turn, challenge, pending, login, answer, uiq, sent, refused, typed>>

InTurn(m) == FillTarget(m) \/ FillMux(m) \/ FillAll(m) \/ HandleHash(m) \/ HandleLogin(m)
                \/ SendLogin(m) \/ EndTurn(m)

LoginNext ==
    \/ Type
    \/ \E m \in Mappings :
          \/ HashArrives(m) \/ LoginTyped(m) \/ TakeTurn(m) \/ InTurn(m)
          \/ LoginAccepted(m) \/ LoginRefused(m) \/ ConnectionLost(m)

\* tokio's Mutex is fair, the loop handles what is in its queue, and a
\* connection brings its Hash or ends (READ_TIMEOUT).
LoginFairness == \A m \in Mappings :
    /\ WF_loginVars(~challenge[m] /\ (HashArrives(m) \/ ConnectionLost(m)))
    /\ WF_loginVars(LoginTyped(m))
    /\ SF_loginVars(TakeTurn(m)) /\ WF_loginVars(InTurn(m))

LoginSpec == LoginInit /\ [][LoginNext]_loginVars
LoginFairSpec == LoginSpec /\ LoginFairness

----------------------------------------------------------------------------
(* Properties *)

\* Every login a mapping sends carries its own target and its own multiplex
\* flag and answers its own connection's challenge, although all three pass
\* through the handler that the other mappings write.
OwnLogin == \A m \in Mappings : sent[m] # <<>> =>
    /\ sent[m][1].target = m
    /\ sent[m][1].mux = (m \in Probing)
    /\ sent[m][1].challenge = m

\* A login that answers the prompt carries what was typed for it, not what
\* another mapping left in the handler.  (A blank answer asks for just that.)
TypedIsSent == \A m \in Mappings :
    pc[m] = "sending" /\ login[m] \notin {None} \cup Blank => sent[m][1].password = login[m]

\* A typed password reaches the peer on every mapping that is logging in, even
\* when it was typed before that mapping's Hash arrived, unless a newer one has
\* taken its place or the login is over.
TypedIsTried == \A m \in Mappings : \A n \in Typed \ Blank :
    (typed = n /\ pc[m] \notin {"in", "gone"})
        ~> \/ sent[m] # <<>> /\ sent[m][1].password = n
           \/ typed > n \/ pc[m] \in {"in", "gone"}
=============================================================================
