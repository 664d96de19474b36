---------------------------- MODULE Configuration ----------------------------
(***************************************************************************)
(* The configuration of one profile: the wizard that asks for provider,    *)
(* model, key and backend (configurator.ts), the configuration file        *)
(* (user-config.ts), and the places a provider key is kept in              *)
(* (secret-store.ts, provider-secret.ts).                                  *)
(*                                                                         *)
(* A wizard reads the configuration once, and writes twice, the key first  *)
(* and the configuration last; it may be cancelled, fail or be killed in   *)
(* between, and another may run in another terminal.  Neither write is     *)
(* ever seen half done: both replace their file by a rename.               *)
(***************************************************************************)
EXTENDS Naturals

CONSTANTS
  Wizards,     \* processes that run the wizard
  Presets,     \* the kinds of provider it is asked for
  MaxWizards   \* bound: times the wizard is started

VARIABLES
  saved,       \* the configuration file, or NoConfig
  keyFile,     \* the variable a private dotenv file defines, or "none"
  keychain,    \* services the keychain has a key for
  wizard,      \* [Wizards -> what each has been told]
  overwritten, \* files one wizard wrote over what another had just stored
  started      \* wizards started so far

configVars == <<saved, keyFile, keychain, wizard, overwritten, started>>

ASSUME PresetsAssumption == Presets \subseteq {"groq", "zen", "openrouter", "custom"}

(* A retired provider, which an old configuration may still name.  A key   *)
(* file and a keychain service are named after the provider.               *)
IDs == Presets \cup {"upstage"}

Environment  == [source |-> "environment", place |-> "none"]
Dotenv(f)    == [source |-> "dotenv", place |-> f]
Keychain(s)  == [source |-> "keychain", place |-> s]

NoConfig == [id |-> "none"]

(* What an earlier version left: a retired provider with its key file, or  *)
(* one whose key comes from the environment.                               *)
OldConfigs ==
  {[id |-> p, protocol |-> "chat", key |-> p, routing |-> "none",
    secret |-> IF p = "upstage" THEN Dotenv(p) ELSE Environment] : p \in IDs \ {"custom"}}

Closed(w) == wizard[w].pc = "idle"
NoWizard == [pc |-> "idle", existing |-> NoConfig, draft |-> NoConfig]

ConfigInit ==
  /\ saved = NoConfig /\ keychain = {} /\ overwritten = {} /\ started = 0
  /\ keyFile = [f \in IDs |-> "none"]
  /\ wizard = [w \in Wizards |-> NoWizard]

Inherit(c) ==
  /\ started = 0 /\ saved = NoConfig
  /\ saved' = c
  /\ keyFile' = IF c.secret.source = "dotenv" THEN [keyFile EXCEPT ![c.secret.place] = c.key]
                ELSE keyFile
  /\ UNCHANGED <<keychain, wizard, overwritten, started>>

(***************************************************************************)
(* What the answers come to.                                               *)
(***************************************************************************)
SameProvider(old, id) == old.id = id

(* The identifier of a custom provider is typed, and offered as it was.    *)
IDsOf(preset, old) ==
  IF preset = "custom" THEN {"custom"} \cup (IF old = NoConfig THEN {} ELSE {old.id})
  ELSE {preset}

(* Routing by body is for chat completions alone.                          *)
RoutingOf(preset, old, id, protocol) ==
  CASE preset \in {"groq", "zen"} -> "none"
    [] preset = "openrouter" -> IF protocol = "chat" THEN "body" ELSE "headers"
    [] preset = "custom" -> IF SameProvider(old, id) THEN old.routing ELSE "none"

ProtocolsOf(preset) == IF preset \in {"groq", "zen"} THEN {"chat"} ELSE {"chat", "responses"}

(* loadProviderProfile, by which wizard, file and launch are all held.     *)
ProfileLoads(c) == ~(c.routing = "body" /\ c.protocol = "responses")

(* loadProviderSecret, given nothing but the reference: a file defines one *)
(* name, the keychain is asked for a service.                              *)
FileDefines(f, key)  == keyFile[f] = key
KeychainHas(service) == service \in keychain

KeyFound(secret, key) ==
  IF secret.source = "dotenv" THEN FileDefines(secret.place, key)
  ELSE KeychainHas(secret.place)

(***************************************************************************)
(* The wizard.                                                             *)
(***************************************************************************)
Tell(w, pc, draft) == wizard' = [wizard EXCEPT ![w].pc = pc, ![w].draft = draft]

Stop(w) == wizard' = [wizard EXCEPT ![w] = NoWizard]

StartWizard(w) ==
  /\ Closed(w) /\ started < MaxWizards /\ started' = started + 1
  /\ wizard' = [wizard EXCEPT ![w] = [NoWizard EXCEPT !.pc = "profile", !.existing = saved]]
  /\ UNCHANGED <<saved, keyFile, keychain, overwritten>>

(* A key is named after the kind of provider; a custom one by hand.        *)
Draft(preset, old, id, protocol) ==
  [id |-> id, protocol |-> protocol, key |-> preset,
   routing |-> RoutingOf(preset, old, id, protocol), secret |-> Environment]

ChooseProvider(w, preset, id, protocol) ==
  LET old == wizard[w].existing
      draft == Draft(preset, old, id, protocol)
  IN  /\ wizard[w].pc = "profile"
      /\ id \in IDsOf(preset, old) /\ protocol \in ProtocolsOf(preset)
      /\ IF ProfileLoads(draft) THEN Tell(w, "secret", draft) ELSE Stop(w)
      /\ UNCHANGED <<saved, keyFile, keychain, overwritten, started>>

(* The reference of the same provider is offered again, of another never.  *)
OfferedFile(w) ==
  LET old == wizard[w].existing
      id  == wizard[w].draft.id
  IN  IF SameProvider(old, id) /\ old.secret.source = "dotenv" THEN old.secret.place ELSE id

OfferedService(w) ==
  LET old == wizard[w].existing
      id  == wizard[w].draft.id
  IN  IF SameProvider(old, id) /\ old.secret.source = "keychain" THEN old.secret.place ELSE id

UseEnvironment(w) ==
  /\ wizard[w].pc = "secret"
  /\ Tell(w, "save", wizard[w].draft)
  /\ UNCHANGED <<saved, keyFile, keychain, overwritten, started>>

(* Fault: a file that is there is not looked into.                         *)
UseFileUnread(w) ==
  /\ wizard[w].pc = "secret"
  /\ Tell(w, IF keyFile[OfferedFile(w)] = "none" THEN "type" ELSE "save",
             [wizard[w].draft EXCEPT !.secret = Dotenv(OfferedFile(w))])
  /\ UNCHANGED <<saved, keyFile, keychain, overwritten, started>>

(* A file that is there must define the key; one that is not is asked for. *)
UseFile(w) ==
  /\ wizard[w].pc = "secret"
  /\ LET draft == [wizard[w].draft EXCEPT !.secret = Dotenv(OfferedFile(w))]
     IN  IF keyFile[draft.secret.place] = "none" THEN Tell(w, "type", draft)
         ELSE IF KeyFound(draft.secret, draft.key) THEN Tell(w, "save", draft)
         ELSE Stop(w)
  /\ UNCHANGED <<saved, keyFile, keychain, overwritten, started>>

UseKeychain(w) ==
  /\ wizard[w].pc = "secret"
  /\ LET draft == [wizard[w].draft EXCEPT !.secret = Keychain(OfferedService(w))]
     IN  Tell(w, IF KeyFound(draft.secret, draft.key) THEN "save" ELSE "type", draft)
  /\ UNCHANGED <<saved, keyFile, keychain, overwritten, started>>

(* savePrivateDotenvSecret replaces what may have come there while the key *)
(* was typed.                                                              *)
StoreKeyFile(w) ==
  LET f == wizard[w].draft.secret.place
  IN  /\ wizard[w].pc = "type" /\ wizard[w].draft.secret.source = "dotenv"
      /\ keyFile' = [keyFile EXCEPT ![f] = wizard[w].draft.key]
      /\ overwritten' = IF keyFile[f] = "none" THEN overwritten ELSE overwritten \cup {f}
      /\ Tell(w, "verify", wizard[w].draft)
      /\ UNCHANGED <<saved, keychain, started>>

StoreInKeychain(w) ==
  /\ wizard[w].pc = "type" /\ wizard[w].draft.secret.source = "keychain"
  /\ keychain' = keychain \cup {wizard[w].draft.secret.place}
  /\ Tell(w, "verify", wizard[w].draft)
  /\ UNCHANGED <<saved, keyFile, overwritten, started>>

VerifyKey(w) ==
  LET draft == wizard[w].draft
  IN  /\ wizard[w].pc = "verify"
      /\ IF KeyFound(draft.secret, draft.key) THEN Tell(w, "save", draft) ELSE Stop(w)
      /\ UNCHANGED <<saved, keyFile, keychain, overwritten, started>>

(* saveUserConfig.                                                         *)
SaveConfig(w) ==
  /\ wizard[w].pc = "save"
  /\ saved' = wizard[w].draft
  /\ Stop(w)
  /\ UNCHANGED <<keyFile, keychain, overwritten, started>>

(* Cancelled, failed, or killed: what was written stays.                   *)
Abandon(w) ==
  /\ ~Closed(w) /\ Stop(w)
  /\ UNCHANGED <<saved, keyFile, keychain, overwritten, started>>

ConfigNext ==
  \/ \E c \in OldConfigs : Inherit(c)
  \/ \E w \in Wizards :
       \/ StartWizard(w)
       \/ \E preset \in Presets, id \in IDs, protocol \in {"chat", "responses"} :
            ChooseProvider(w, preset, id, protocol)
       \/ UseEnvironment(w) \/ UseKeychain(w) \/ UseFile(w)
       \/ StoreKeyFile(w) \/ StoreInKeychain(w) \/ VerifyKey(w) \/ SaveConfig(w) \/ Abandon(w)

ConfigSpec == ConfigInit /\ [][ConfigNext]_configVars

(***************************************************************************)
(* Properties.                                                             *)
(***************************************************************************)
(* The configuration in the file can be launched at any time, whatever     *)
(* wizard stopped where: it is one the loader accepts, and its key is      *)
(* where it says, under the name it says, unless another wizard wrote over *)
(* the file at the same time (configurator.ts runConfigurator and          *)
(* configureSecret, user-config.ts saveUserConfig).                        *)
ConfigIsUsable ==
  saved # NoConfig =>
    /\ ProfileLoads(saved)
    /\ \/ saved.secret.source = "environment"
       \/ saved.secret.source = "dotenv" /\ saved.secret.place \in overwritten
       \/ KeyFound(saved.secret, saved.key)
=============================================================================
