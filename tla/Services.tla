------------------------------ MODULE Services ------------------------------
(***************************************************************************)
(* The services around the payment chain.  They do not touch each other's  *)
(* state, so a behaviour follows one of them, chosen by Init, while the    *)
(* others rest in their initial states: the state spaces add up and do not *)
(* multiply.                                                               *)
(***************************************************************************)
EXTENDS AiAlerts

CONSTANTS
  Components,                                                       \* that may run
  Events, Matches, Window, Interval, FirstWait, MaxStored, ScoreFaults,  \* EventWindow
  Blocks, Unblocks, Lists,                                          \* Blocklist
  Logins, AccountIds, UserOf, DeviceOf, Taken, MaxTries,
  PortalRestarts, NoLogin,                                          \* PortalLogin
  Requests, Mixes, Lifetime, Margin, CallTime, RefreshTime, MaxAge,
  CleanInterval,                                                    \* PortalTokens
  Attempts, NameOf, MailOf, HourLimit, Hour, Nobody, Others,        \* Registration
  Pods, Calls, PodOf, PerMinute, Minute, Lag, FallbackRight,
  DoorFaults, MaxRotations,                                         \* Gateway
  Writes, CaseOf, MaxCuts, MaxStarts, Nothing                       \* CaseStore

VARIABLES
  component,
  place, life, timer, reading, asking, last, gauge, up, faults, troubled,
  banStage, banned, listed, banFailed, banBefore,
  loginStage, asked, wire, tries, maker, shown, trust, sessions, known, logBoots,
  before, blind, forsaken,
  kind, requestStage, waited, carried, minted, failed, verified, late, held, session,
  sessionAge, cleaner, leaving, sso, ended,
  attemptStage, bucket, passed, created, owner, roles, found, told, faulty,
  keys, issuer, loading, realm, keycloak, window, since, outcome, doorFaults,
  memory, lines, open, stored, starts

alertVars    == vars
scoreVars    == <<place, life, timer, reading, asking, last, gauge, up, faults, troubled>>
banVars      == <<banStage, banned, listed, banFailed, banBefore>>
loginVars    == <<loginStage, asked, wire, tries, maker, shown, trust, sessions, known,
                  logBoots, before, blind, forsaken>>
tokensVars   == <<kind, requestStage, waited, carried, minted, failed, verified, late, held,
                  session, sessionAge, cleaner, leaving, sso, ended>>
registerVars == <<attemptStage, bucket, passed, created, owner, roles, found, told, faulty>>
doorVars     == <<keys, issuer, loading, realm, keycloak, window, since, outcome,
                  doorFaults>>
storeVars    == <<memory, lines, open, stored, starts>>
allVars      == <<component, alertVars, scoreVars, banVars, loginVars, tokensVars,
                  registerVars, doorVars, storeVars>>

-----------------------------------------------------------------------------
Score == INSTANCE EventWindow WITH MaxFaults <- ScoreFaults

Bans == INSTANCE Blocklist WITH
  stage <- banStage, failed <- banFailed, before <- banBefore

Login == INSTANCE PortalLogin WITH
  MaxRestarts <- PortalRestarts, None <- NoLogin, stage <- loginStage, boots <- logBoots

Tokens == INSTANCE PortalTokens WITH
  stage <- requestStage, answer <- verified, age <- sessionAge

Register == INSTANCE Registration WITH
  Limit <- HourLimit, stage <- attemptStage, since <- passed, answer <- told

Door == INSTANCE Gateway WITH
  Limit <- PerMinute, MaxFaults <- DoorFaults, faults <- doorFaults

Store == INSTANCE CaseStore WITH outcome <- stored

ASSUME ServicesAssumption ==
  /\ Score!Parameters /\ Bans!Parameters /\ Login!Parameters /\ Tokens!Parameters
  /\ Register!Parameters /\ Door!Parameters /\ Store!Parameters

-----------------------------------------------------------------------------
ServicesInit ==
  /\ component \in Components
  /\ Init /\ Score!Init /\ Bans!Init /\ Login!Init /\ Tokens!Init /\ Register!Init
  /\ Door!Init /\ Store!Init
  /\ component # "tokens" => cleaner = CleanInterval /\ kind = CHOOSE mix \in Mixes : TRUE

ServicesNext ==
  /\ UNCHANGED component
  /\ \/ /\ component = "alerts" /\ Next
        /\ UNCHANGED <<scoreVars, banVars, loginVars, tokensVars, registerVars, doorVars,
                       storeVars>>
     \/ /\ component = "score" /\ Score!Next
        /\ UNCHANGED <<alertVars, banVars, loginVars, tokensVars, registerVars, doorVars,
                       storeVars>>
     \/ /\ component = "bans" /\ Bans!Next
        /\ UNCHANGED <<alertVars, scoreVars, loginVars, tokensVars, registerVars, doorVars,
                       storeVars>>
     \/ /\ component = "login" /\ Login!Next
        /\ UNCHANGED <<alertVars, scoreVars, banVars, tokensVars, registerVars, doorVars,
                       storeVars>>
     \/ /\ component = "tokens" /\ Tokens!Next
        /\ UNCHANGED <<alertVars, scoreVars, banVars, loginVars, registerVars, doorVars,
                       storeVars>>
     \/ /\ component = "register" /\ Register!Next
        /\ UNCHANGED <<alertVars, scoreVars, banVars, loginVars, tokensVars, doorVars,
                       storeVars>>
     \/ /\ component = "door" /\ Door!Next
        /\ UNCHANGED <<alertVars, scoreVars, banVars, loginVars, tokensVars, registerVars,
                       storeVars>>
     \/ /\ component = "store" /\ Store!Next
        /\ UNCHANGED <<alertVars, scoreVars, banVars, loginVars, tokensVars, registerVars,
                       doorVars>>

ServicesSpec == ServicesInit /\ [][ServicesNext]_allVars

-----------------------------------------------------------------------------
(* The properties of the components, by the names they have there.  They   *)
(* are evaluated while their component runs; those that are about steps    *)
(* hold of the others at rest.                                             *)
Runs(name) == component = name

ServicesTypeOK ==
  /\ Runs("alerts") => TypeOK
  /\ Runs("score") => Score!TypeOK
  /\ Runs("bans") => Bans!TypeOK
  /\ Runs("login") => Login!TypeOK
  /\ Runs("tokens") => Tokens!TypeOK
  /\ Runs("register") => Register!TypeOK
  /\ Runs("door") => Door!TypeOK
  /\ Runs("store") => Store!TypeOK

ScoreIsFresh        == Runs("score") => Score!ScoreIsFresh
BansAgree           == Runs("bans") => Bans!BansAgree
StoreIsSound        == Runs("store") => Store!StoreIsSound
LoginIsSound        == Runs("login") => Login!LoginIsSound
AccountsAreSound    == Runs("login") => Login!AccountsAreSound
SessionIsSound      == Tokens!SessionIsSound
RegistrationIsSound == Runs("register") => Register!RegistrationIsSound
RateLimitIsFair     == Door!RateLimitIsFair
=============================================================================
