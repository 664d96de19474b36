--------------------------- MODULE AcpPermission ---------------------------
(***************************************************************************)
(* How the ACP host reads a session/request_permission of its agent        *)
(* (src/src/acp-permission.ts): AcpPermissionRouter picks one of three     *)
(* brokers, the broker parses the request, and a request it refuses is     *)
(* answered with the agent's own reject option when there is exactly one.  *)
(* A request is what these decisions look at: the variant of rawInput, the *)
(* title and the tool_name (or "absent"), whether the call is still        *)
(* pending, the session is the bound one, the arguments are well-formed,   *)
(* the kinds of its options, and whether an option ID occurs twice.        *)
(***************************************************************************)
CONSTANTS Bodies   \* publication arguments, as permissionFingerprint tells them apart

OrganumTools == {"organum_publish", "organum_handoff"}
Qualified    == OrganumTools \cup {"graph_query", "graph_other"}
Variants     == {"UseTool", "Bash", "Write", "Read"}
OptionKinds  == {"allow_once", "reject_once", "allow_always"}

PermissionRequest ==
  [variant : Variants, title : Qualified \cup {"native"},
   name : Qualified \cup {"absent"}, pending : BOOLEAN, bound : BOOLEAN,
   valid : BOOLEAN, options : SUBSET OptionKinds, twice : BOOLEAN,
   body : Bodies, command : {"declared", "suffixed", "absent"}]

(* isOrganumPermissionRequest() looks at the title alone, isUseTool... at the variant. *)
Router(q, readOnly) ==
  CASE q.title \in OrganumTools                       -> "organum"
    [] q.title \notin OrganumTools /\ q.variant = "UseTool" ->
         IF readOnly THEN "integration" ELSE "organum"
    [] OTHER                                          -> "native"

OptionsParse(q) == q.options # {} /\ ~q.twice

ParsesAsOrganum(q) ==
  /\ q.pending /\ q.variant = "UseTool"
  /\ q.title \in OrganumTools /\ q.name = q.title
  /\ q.valid /\ OptionsParse(q)

(* A qualified title, a UseTool variant or a tool_name is not native. *)
ParsesAsNative(q) ==
  /\ q.pending /\ q.variant # "UseTool"
  /\ q.title = "native" /\ q.name = "absent"
  /\ q.valid /\ OptionsParse(q)

ParsesAsIntegration(q) ==
  /\ q.pending /\ q.variant = "UseTool" /\ q.name \in Qualified
  /\ q.valid /\ OptionsParse(q)

Parses(q, readOnly) ==
  CASE Router(q, readOnly) = "organum"     -> ParsesAsOrganum(q)
    [] Router(q, readOnly) = "integration" -> ParsesAsIntegration(q)
    [] Router(q, readOnly) = "native"      -> ParsesAsNative(q)

(* shallowRejectOption() and reject(): the answer to what is not allowed.  *)
Refusal(q) ==
  IF "reject_once" \in q.options /\ ~q.twice THEN "reject_once" ELSE "cancelled"

OffersBoth(q) == {"allow_once", "reject_once"} \subseteq q.options

(* GRAPHIFY_READ_ONLY_TOOLS: allowed without a question. *)
ReadOnlyTools == {"graph_query"}

(* nativeExecutionCommand(): "none" unless the call bears a command. *)
CommandOf(q) == IF q.variant = "Bash" THEN q.command ELSE "none"

OperationOf(q) == <<q.title, q.body>>
=============================================================================
