----------------------------- MODULE ProductHost -----------------------------
(***************************************************************************)
(* The machines around one launch of the product: the run of the command   *)
(* itself, the launches of a backend over its runtime directory, the       *)
(* native tools, the ACP host and the transport to its agent, the OpenCode *)
(* plugin, the calls of the Organum command, the packet of a turn, the     *)
(* installation of a release, and the wizard of its configuration.  They   *)
(* share no state, and take their steps in any order.                      *)
(***************************************************************************)
EXTENDS
  ProductRun, NativeRuntime, NativeTools, AcpHost, AcpTransport, OpenCodePlugin,
  ReleaseInstallation, OrganumCommand, CoordinationContext, Configuration

allVars ==
  <<productVars, nativeVars, toolsVars, acpVars, transportVars, pluginVars, installVars,
    commandVars, packetVars, configVars>>

HostInit ==
  /\ ProductInit /\ NativeInit /\ ToolsInit /\ AcpInit /\ TransportInit
  /\ PluginInit /\ InstallInit /\ CommandInit /\ ContextInit /\ ConfigInit

(* One machine moves, and the others stay as they are.                     *)
MoveRun ==
  /\ ProductNext
  /\ UNCHANGED <<nativeVars, toolsVars, acpVars, transportVars, pluginVars,
                 installVars, commandVars, packetVars, configVars>>

MoveNative ==
  /\ NativeNext
  /\ UNCHANGED <<productVars, toolsVars, acpVars, transportVars, pluginVars,
                 installVars, commandVars, packetVars, configVars>>

MoveTools ==
  /\ ToolsNext
  /\ UNCHANGED <<productVars, nativeVars, acpVars, transportVars, pluginVars,
                 installVars, commandVars, packetVars, configVars>>

MoveAcp ==
  /\ AcpNext
  /\ UNCHANGED <<productVars, nativeVars, toolsVars, transportVars, pluginVars,
                 installVars, commandVars, packetVars, configVars>>

MoveTransport ==
  /\ TransportNext
  /\ UNCHANGED <<productVars, nativeVars, toolsVars, acpVars, pluginVars,
                 installVars, commandVars, packetVars, configVars>>

MovePlugin ==
  /\ PluginNext
  /\ UNCHANGED <<productVars, nativeVars, toolsVars, acpVars, transportVars,
                 installVars, commandVars, packetVars, configVars>>

MoveInstall ==
  /\ InstallNext
  /\ UNCHANGED <<productVars, nativeVars, toolsVars, acpVars, transportVars,
                 pluginVars, commandVars, packetVars, configVars>>

MoveCommand ==
  /\ CommandNext
  /\ UNCHANGED <<productVars, nativeVars, toolsVars, acpVars, transportVars,
                 pluginVars, installVars, packetVars, configVars>>

MovePacket ==
  /\ ContextNext
  /\ UNCHANGED <<productVars, nativeVars, toolsVars, acpVars, transportVars,
                 pluginVars, installVars, commandVars, configVars>>

MoveConfig ==
  /\ ConfigNext
  /\ UNCHANGED <<productVars, nativeVars, toolsVars, acpVars, transportVars,
                 pluginVars, installVars, commandVars, packetVars>>

HostNext ==
  \/ MoveRun \/ MoveNative \/ MoveTools \/ MoveAcp \/ MoveTransport
  \/ MovePlugin \/ MoveInstall \/ MoveCommand \/ MovePacket \/ MoveConfig

HostSpec == HostInit /\ [][HostNext]_allVars

-----------------------------------------------------------------------------
(* After its declared command succeeded a critic is bounded, whichever     *)
(* host runs it: the ACP host (acp-permission.ts) or the plugin            *)
(* (opencode-plugin.ts).                                                   *)
CloseOutIsBounded == CriticIsBounded /\ PluginIsBounded

(* A request to the ACP agent (acp-client.ts) and a call of the Organum    *)
(* command (organum-cli.ts) settle once, with what became of it.           *)
CallsSettleOnce == RequestsSettleOnce /\ CommandsSettleOnce

(* What counts as shown was shown: the packet names its own items          *)
(* (coordination-context.ts), the checkpoint kept of it is its root's      *)
(* (coordination-continuity.ts), and the receipt a plugin leaves for its   *)
(* cast is of what its turns took in (opencode-plugin.ts).                 *)
ExposureIsTrue == CastReceiptIsTrue /\ PacketIsHonest /\ CheckpointIsTheRoots

(* A command that stops half way leaves a release whole or its prefix as   *)
(* it was (release-installation.ts), and a configuration that loads        *)
(* (configurator.ts).                                                      *)
FilesAreWhole == InstallIsWhole /\ ConfigIsUsable
=============================================================================
