--------------------------- MODULE WalletSession ---------------------------
(***************************************************************************)
(* The wallet session of the web application (context/WalletContext.tsx)    *)
(* and its idle logout (context/IdleSessionContext.tsx): connecting a       *)
(* wallet, the watcher that polls Freighter while a public key is set, and  *)
(* the timer that disconnects an idle user.                                 *)
(*                                                                          *)
(* Handlers run to their next await.  The waits for the extension (access,  *)
(* connection, key) are one, and so are those for network and balance.      *)
(* publicKey and publicKeyRef are always set together.  Changing publicKey  *)
(* re-runs the watcher's effect, which cancels the checks of the old one.   *)
(* Network, error and isConnecting are left out, and so is signing, which   *)
(* changes nothing.                                                         *)
(*                                                                          *)
(* disconnectAll is a new function in every render of the wallet provider,  *)
(* so each one re-runs the idle effect, which starts lastActivityRef anew.  *)
(***************************************************************************)
EXTENDS Integers, FiniteSets

CONSTANTS
  Keys,           \* Freighter's accounts
  LedgerKey,      \* the account of the hardware wallet
  Connects,       \* connect calls
  Checks,         \* checks of the watcher that may overlap
  Timeout,        \* timeoutMs
  Warning,        \* warningDurationMs
  MaxIdle         \* bound on the time since the last activity

VARIABLES
  extension,      \* Freighter (external): its account, or none if gone or revoked
  session,        \* publicKey, walletType, the account of usdcBalance, other addresses
  connects,       \* the connect calls: kind, step, key
  checks,         \* the watcher's checks: step, alive (not cancelled), key
  idle,           \* lastActivityRef as an age, isWarningOpen
  inactive,       \* ghost: the time since the user, or the wallet, did anything
  walletCause     \* ghost: what has happened that the session shown does not survive,
                  \* until a wallet grants a key, a balance is fetched or the session ends

walletVars == <<extension, session, connects, checks, idle, inactive, walletCause>>

None == "none"

NoSession == [key |-> None, type |-> None, balance |-> None, others |-> {}]
NoConnect == [kind |-> None, step |-> "idle", key |-> None]
NoCheck == [step |-> "idle", alive |-> FALSE, key |-> None]

Init ==
  /\ extension \in Keys
  /\ session = NoSession
  /\ connects = [c \in Connects |-> NoConnect]
  /\ checks = [w \in Checks |-> NoCheck]
  /\ idle = [age |-> 0, warned |-> FALSE] /\ inactive = 0
  /\ walletCause = {}

\* isConnected.
IsConnected(s) == s.key # None \/ s.others # {}

\* The session becomes s, with the watcher's checks cs.  The watcher's effect is
\* re-run when publicKey changes, the idle effects in every render; they close the
\* warning when nothing is connected.
Become(s, cs) ==
  /\ session' = s
  /\ checks' = IF s.key = session.key THEN cs
               ELSE [w \in Checks |-> [cs[w] EXCEPT !.alive = FALSE]]
  /\ idle' = IF s = session THEN idle
             ELSE [age |-> 0, warned |-> idle.warned /\ IsConnected(s)]
  /\ inactive' = IF s = session THEN inactive ELSE 0

-----------------------------------------------------------------------------
(* Connecting *)

\* connect, connectLedger, connectEVM, connectSolana.
Connect(c, kind) ==
  /\ connects[c].step = "idle"
  /\ connects' = [connects EXCEPT ![c] = [kind |-> kind, step |-> "access", key |-> None]]
  /\ UNCHANGED <<extension, session, checks, idle, inactive, walletCause>>

\* The wallet answers: the account becomes the session's, whatever happened since
\* the call.
Granted(c) ==
  LET kind == connects[c].kind
      key == IF kind = "stellar" THEN extension ELSE LedgerKey IN
  /\ connects[c].step = "access"
  /\ IF kind \in {"stellar", "ledger"}
     THEN /\ key # None
          /\ Become([session EXCEPT !.key = key, !.type = kind], checks)
          /\ connects' = [connects EXCEPT ![c].step = "balance", ![c].key = key]
          /\ walletCause' = {}
     ELSE /\ Become([session EXCEPT !.others = @ \cup {kind}, !.type = kind], checks)
          /\ connects' = [connects EXCEPT ![c].step = "done"]
          /\ UNCHANGED walletCause
  /\ UNCHANGED extension

\* The catch of connect drops the key and a Stellar type, and keeps the balance
\* and the type of another wallet.
Refused(c) ==
  /\ connects[c].step = "access"
  /\ connects' = [connects EXCEPT ![c].step = "done"]
  /\ IF connects[c].kind = "stellar"
     THEN /\ Become([session EXCEPT !.key = None, !.type = IF @ = "stellar" THEN None ELSE @],
                   checks)
          /\ walletCause' = walletCause \cup
               (IF session.key # None THEN {"connect failed while connected"} ELSE {})
     ELSE UNCHANGED <<session, checks, idle, inactive, walletCause>>
  /\ UNCHANGED extension

\* fetchBalances ends; nothing asks whose balance is wanted by now.
ShowBalance(key, found, cs) ==
  /\ Become([session EXCEPT !.balance = IF found THEN key ELSE None], cs)
  /\ walletCause' = (walletCause \ {"balance of an earlier account"}) \cup
       (IF found /\ key # session.key THEN {"balance of an earlier account"} ELSE {})

ConnectBalance(c, found) ==
  /\ connects[c].step = "balance"
  /\ connects' = [connects EXCEPT ![c].step = "done"]
  /\ ShowBalance(connects[c].key, found, checks)
  /\ UNCHANGED extension

\* clearWalletState.
ClearWalletState == Become(NoSession, checks) /\ walletCause' = {}

\* disconnect, disconnectAll.
Disconnect ==
  /\ IsConnected(session)
  /\ ClearWalletState
  /\ UNCHANGED <<extension, connects>>

-----------------------------------------------------------------------------
(* The watcher *)

\* On mount, every three seconds, and when the tab regains focus.
CheckConnection(w) ==
  /\ session.key # None
  /\ checks[w].step = "idle"
  /\ checks' = [checks EXCEPT ![w] = [step |-> "asking", alive |-> TRUE, key |-> None]]
  /\ UNCHANGED <<extension, session, connects, idle, inactive, walletCause>>

\* Mutant: handleStellarDisconnect leaves the balance.
DroppedKeepsBalance == [session EXCEPT !.key = None,
                                       !.type = IF @ = "stellar" THEN None ELSE @]

\* The session after handleStellarDisconnect, and after an account switch.
Dropped == [session EXCEPT !.key = None, !.balance = None,
                           !.type = IF @ = "stellar" THEN None ELSE @]
Adopted == [session EXCEPT !.key = extension]

\* The extension answers.  A cancelled check ends; one that finds the extension
\* gone drops the session; one that finds another account adopts it and fetches
\* its balance.  The key that is watched may be a Ledger's.
CheckAnswered(w) ==
  LET after == IF extension = None THEN Dropped ELSE Adopted
      fetches == extension # None /\ extension # session.key IN
  /\ checks[w].step = "asking"
  /\ IF ~checks[w].alive
     THEN /\ checks' = [checks EXCEPT ![w] = NoCheck]
          /\ UNCHANGED <<session, idle, inactive, walletCause>>
     ELSE /\ Become(after, [checks EXCEPT ![w] =
               IF fetches THEN [step |-> "balance", alive |-> FALSE, key |-> extension]
               ELSE NoCheck])
          /\ walletCause' = walletCause \cup
               (IF after.key # session.key /\ session.key = LedgerKey
                THEN {"watched a Ledger"} ELSE {})
  /\ UNCHANGED <<extension, connects>>

\* An error that does not say the wallet is gone is ignored.
CheckFailed(w) ==
  /\ checks[w].step = "asking"
  /\ checks' = [checks EXCEPT ![w] = NoCheck]
  /\ UNCHANGED <<extension, session, connects, idle, inactive, walletCause>>

CheckBalance(w, found) ==
  /\ checks[w].step = "balance"
  /\ ShowBalance(checks[w].key, found, [checks EXCEPT ![w] = NoCheck])
  /\ UNCHANGED <<extension, connects>>

\* The user switches accounts in Freighter, revokes access, or comes back.
ExtensionChanges(k) ==
  /\ k # extension
  /\ extension' = k
  /\ UNCHANGED <<session, connects, checks, idle, inactive, walletCause>>

-----------------------------------------------------------------------------
(* Idle logout *)

\* The provider renders for a change of what is left out.
ProviderRenders ==
  /\ IsConnected(session)
  /\ idle' = [idle EXCEPT !.age = 0] /\ inactive' = 0
  /\ UNCHANGED <<extension, session, connects, checks, walletCause>>

\* A user event: counted only while no warning is shown.
HandleActivity ==
  /\ IsConnected(session) /\ inactive > 0
  /\ inactive' = 0
  /\ idle' = IF idle.warned THEN idle ELSE [idle EXCEPT !.age = 0]
  /\ UNCHANGED <<extension, session, connects, checks, walletCause>>

\* The button of the warning.  (Closing the warning re-runs the effect, which
\* starts the age anew as well.)
ExtendSession ==
  /\ idle.warned
  /\ idle' = [age |-> 0, warned |-> FALSE] /\ inactive' = 0
  /\ UNCHANGED <<extension, session, connects, checks, walletCause>>

\* logoutSession, of the ticker or of the warning's other button.
LogoutSession == ClearWalletState

\* The ticker.  Opening the warning re-runs the effect: its cleanup ends the
\* countdown and the age starts anew, so only the hard timeout logs out.
Tick ==
  LET age == idle.age + 1 IN
  /\ IsConnected(session) /\ inactive < MaxIdle
  /\ IF age >= Timeout
     THEN LogoutSession
     ELSE /\ idle' = IF age >= Timeout - Warning /\ ~idle.warned
                     THEN [age |-> 0, warned |-> TRUE]
                     ELSE [idle EXCEPT !.age = age]
          /\ inactive' = inactive + 1
          /\ UNCHANGED <<session, checks, walletCause>>
  /\ UNCHANGED <<extension, connects>>

Next ==
  \/ \E c \in Connects :
       \/ \E kind \in {"stellar", "ledger", "evm"} : Connect(c, kind)
       \/ Granted(c) \/ Refused(c)
       \/ \E found \in BOOLEAN : ConnectBalance(c, found)
  \/ Disconnect
  \/ \E w \in Checks :
       \/ CheckConnection(w) \/ CheckAnswered(w) \/ CheckFailed(w)
       \/ \E found \in BOOLEAN : CheckBalance(w, found)
  \/ \E k \in Keys \cup {None} : ExtensionChanges(k)
  \/ ProviderRenders \/ HandleActivity \/ ExtendSession \/ Tick

Spec == Init /\ [][Next]_walletVars

-----------------------------------------------------------------------------
\* Types of the session and of the calls.
TypeOK ==
  /\ extension \in Keys \cup {None}
  /\ session.key \in Keys \cup {LedgerKey, None} /\ session.balance \in Keys \cup {LedgerKey, None}
  /\ session.type \in {None, "stellar", "ledger", "evm"} /\ session.others \subseteq {"evm"}
  /\ idle.age \in 0..Timeout - 1 /\ idle.warned \in BOOLEAN

\* What the page shows of the wallet hangs together, whatever order wallets,
\* balances and the watcher answer in.  A Stellar type has a key, and an EVM type
\* an address.  Unless the watcher took a Ledger's key for Freighter's, or a
\* connect call failed over a live session, a Ledger type has the Ledger's key.
\* And unless a balance came late or a connect call failed so, the balance is that
\* of the key shown, or of the one before it while a new one is being fetched.  The
\* exceptions do not outlive the session they spoil: a wallet that grants a key
\* ends them all, the end of the session too, and the next balance fetched ends
\* that of a late one.
SessionHangsTogether ==
  /\ session.type = "stellar" => session.key # None
  /\ session.type = "evm" => "evm" \in session.others
  /\ session.type = "ledger"
       /\ walletCause \cap {"watched a Ledger", "connect failed while connected"} = {} =>
         session.key = LedgerKey
  /\ session.balance \notin {None, session.key} =>
       \/ walletCause \cap {"balance of an earlier account", "connect failed while connected"} # {}
       \/ \E c \in Connects : connects[c].step = "balance" /\ connects[c].key = session.key
       \/ \E w \in Checks : checks[w].step = "balance" /\ checks[w].key = session.key

\* A user who does nothing is logged out once the whole timeout has passed, the
\* warning included: "15 minutes (900,000 ms), warning triggers 60 seconds (60,000
\* ms) before timeout" (IdleSessionContext.tsx:19), the warning counts down the
\* "Automatic Logout In" (IdleSessionModal.tsx:63), and a test expects the logout
\* at a timeout of 5 seconds with a warning of 2 (IdleSession.test.tsx:133-148).
LoggedOutInTime == IsConnected(session) => inactive <= Timeout
=============================================================================
