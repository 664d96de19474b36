---------------------------- MODULE MCProductHost ----------------------------
(***************************************************************************)
(* A small host.  Its machines share no state: the checker explores each   *)
(* of them alone, as part chooses, and leaves the others where they start. *)
(* An invocation differs in one option from one that launches, so that     *)
(* each refusal is met with everything before it prepared.                 *)
(* Two turns, one unused grant and one allowance per operation are the     *)
(* least with an answer that comes late; an escalation at the second       *)
(* request has a window of one; two requests and two answers have a late   *)
(* and a second answer.  Three sessions are a root, its child and another  *)
(* root; three releases have an upgrade and a second one of the same       *)
(* version; two commands are a call and its retry; of four messages one is *)
(* cut, one does not fit a field with the others, and one never fits; two  *)
(* wizards overlap, over a configuration that may be an old one.           *)
(***************************************************************************)
EXTENDS ProductHost, TLC

CONSTANTS x1, p1, p2, s1, s2, s3, c1, c2, w1, w2, h1, h2, k1, k2, k3, k4

MCLaunchers == {p1, p2}
MCSessions  == {s1, s2}
MCProposals == {c1, c2}
MCRunners   == {w1, w2}

Ask(v, title, name, cmd) ==
  [variant |-> v, title |-> title, name |-> name, pending |-> TRUE, bound |-> TRUE,
   valid |-> TRUE, options |-> {"allow_once", "reject_once"}, twice |-> FALSE,
   body |-> x1, command |-> cmd]

MCBodies == {x1}

(* A question of every broker, one that says it is no longer pending, one  *)
(* that cannot be allowed, and two the integration broker answers alone.   *)
MCRequests ==
  LET asked == {Ask("UseTool", o, o, "absent") : o \in OrganumTools}
               \cup {Ask("Bash", "native", "absent", "declared"),
                     Ask("Write", "native", "absent", "absent")}
  IN  asked
      \cup {[q EXCEPT !.pending = FALSE] : q \in asked}
      \cup {[q EXCEPT !.options = {"reject_once"}] : q \in asked}
      \cup {Ask("UseTool", "graph_query", "graph_query", "absent"),
            [Ask("UseTool", "graph_query", "graph_other", "absent") EXCEPT !.twice = TRUE]}

Launch(b) ==
  [verb |-> "launch", backend |-> b, actor |-> b # "opencode", role |-> "critic",
   saved |-> "file", coordination |-> TRUE, broker |-> TRUE, provenance |-> FALSE,
   cast |-> "none", signed |-> FALSE, acp |-> FALSE, chat |-> TRUE, adaptive |-> FALSE,
   projection |-> "none", plugin |-> TRUE, authorized |-> TRUE]

MCLaunches ==
  {Launch(b) : b \in Backends \ {"cursor"}}
  \cup {[Launch(b) EXCEPT !.signed = TRUE] : b \in {"claude", "codex", "cursor"}}
  \cup {[Launch("grok") EXCEPT !.acp = TRUE, !.signed = s] : s \in BOOLEAN}
  \cup {[Launch(b) EXCEPT !.cast = "organum"] : b \in {"opencode", "codex"}}
  \cup {[Launch("grok") EXCEPT !.projection = "grok"]}

MCInvocations ==
  UNION {{i, [i EXCEPT !.actor = ~@], [i EXCEPT !.role = "builder"], [i EXCEPT !.saved = "none"],
          [i EXCEPT !.coordination = FALSE], [i EXCEPT !.broker = FALSE],
          [i EXCEPT !.provenance = TRUE], [i EXCEPT !.cast = "bare"], [i EXCEPT !.chat = FALSE],
          [i EXCEPT !.adaptive = TRUE], [i EXCEPT !.projection = "claude"],
          [i EXCEPT !.plugin = FALSE]}
         \cup {[i EXCEPT !.verb = v] : v \in {"help", "release", "hub", "check", "run",
                                             "configure", "config", "doctor"}} :
         i \in MCLaunches}

(* A root, its child and another root; two hooks at a time, of which it    *)
(* does not matter which is which.                                         *)
MCCalls      == {h1, h2}
MCSymmetry   == Permutations(MCCalls)
MCOCSessions == {s1, s2, s3}
MCParentOf   == s1 :> NoSession @@ s2 :> s1 @@ s3 :> NoSession

(* The third release carries the version of the second.                    *)
MCReleases  == {s1, s2, s3}
MCVersionOf == s1 :> 1 @@ s2 :> 2 @@ s3 :> 2

MCRelevance == k1 :> 0 @@ k2 :> 1 @@ k3 :> 3 @@ k4 :> 0
MCNewer     == k1 :> 1 @@ k2 :> 2 @@ k3 :> 3 @@ k4 :> 4
MCMeta      == k1 :> 1 @@ k2 :> 1 @@ k3 :> 1 @@ k4 :> 4
MCText      == k1 :> 1 @@ k2 :> 3 @@ k3 :> 0 @@ k4 :> 0
MCGoals     == {<<[meta |-> 1, text |-> 2], [meta |-> 2, text |-> 0]>>}

MCPresets == {"openrouter", "custom"}

VARIABLE part

(* Only the run of the command starts in more than one state of its own.   *)
MCSomeRun == [Launch("grok") EXCEPT !.verb = "help"]

MCInit ==
  /\ part \in {"run", "native", "tools", "acp", "transport", "opencode", "install", "command",
              "packet", "config"}
  /\ ProductInit /\ (part # "run" => inv = MCSomeRun /\ ~shipped)
  /\ AcpInit /\ (part # "acp" => ~critic)
  /\ TransportInit
  /\ NativeInit /\ (part # "native" => product = "cursor")
  /\ ToolsInit /\ (part # "tools" => surface = "grok")
  /\ PluginInit /\ reviewer = receipted /\ (part # "opencode" => reviewer)
  /\ InstallInit /\ CommandInit /\ ContextInit /\ ConfigInit

(* The checker lets the machine move that part names.                      *)
MCNext ==
  /\ \/ part = "run" /\ MoveRun
     \/ part = "native" /\ MoveNative
     \/ part = "tools" /\ MoveTools
     \/ part = "acp" /\ MoveAcp
     \/ part = "transport" /\ MoveTransport
     \/ part = "opencode" /\ MovePlugin
     \/ part = "install" /\ MoveInstall
     \/ part = "command" /\ MoveCommand
     \/ part = "packet" /\ MovePacket
     \/ part = "config" /\ MoveConfig
  /\ UNCHANGED part

MCSpec == MCInit /\ [][MCNext]_<<allVars, part>>
=============================================================================
