------------------------------ MODULE Commands ------------------------------
(***************************************************************************)
(* The commands of the command line, each as the order in which its body   *)
(* does things.  A command is named after the facade operation it calls,   *)
(* the five that call none after themselves.  Its steps:                   *)
(*                                                                         *)
(*   format   refuse --json with --jsonl (resolve_format)                  *)
(*   check    refuse a value click's own types let through                 *)
(*   config   the loaded configuration, or exit 78 (_resolve_config)       *)
(*   call     the facade operation                                         *)
(*   found    exit 1 when the answer is "there is none"                    *)
(*   emit     the answer's records, in the chosen format                   *)
(*   lines, text, json   the same for text; echo is click.echo's line      *)
(*   answer   exit with a code the answer holds                            *)
(***************************************************************************)
EXTENDS Facade

\* The operations with the body of their command.
Do(ops, body) == ops \X {body}

Listing == <<"format", "call", "emit">>

\* resolve_format is an argument of emit, evaluated after the facade's call.
LateListing == <<"call", "format", "emit">>

Change == <<"call", "echo">>

AclCommand == Do(Acls.lazy, Listing)

CimCommand == Do({"get_cim_instance"}, Listing)

ConnectionsCommand == Do({"get_net_tcp_connection"}, Listing)

DisksCommand == Do({"get_volume"}, Listing)

DnsCommand == Do({"resolve_dns_name"}, Listing)

EnvironmentCommand == Do({"environment"}, Listing)

EventLogCommand == Do({"get_win_event"}, Listing)

AccountCommands == Do({"get_local_user", "get_local_group", "get_current_identity"}, Listing)

NetCheckCommand == Do({"test_connection"}, Listing)

ProcessesCommand == Do({"get_process"}, Listing)

RegistryCommands == Do(Registry.lazy, Listing)

ScheduledTasksCommand == Do({"get_scheduled_task"}, Listing)

ServicesCommand == Do(Services.lazy, Listing)

UptimeCommand == Do({"get_uptime"}, Listing)

NetworkingCommands ==
    Do({"get_net_adapter", "get_net_ip_address", "get_net_udp_endpoint"}, LateListing)

CredentialCommands ==
    Do({"save_credential"}, <<"check", "call", "echo">>)
      \cup Do({"load_credential"}, <<"call", "found", "format", "emit">>)
      \cup Do({"delete_credential"}, Change)

DotNetCommands ==
    Do({"run"}, <<"call", "json">>)
      \cup Do({"cmdlet"} \cup CmdletWrappers.change, <<"check", "call", "json">>)
      \cup Do({"get_command"}, LateListing)

ElevationCommand == Do({"is_elevated"}, <<"call", "echo", "answer">>)

WriteTextCommand == Do({"write_text_stream"}, <<"check", "call", "echo">>)

FilesystemCommands ==
    Do({"get_child_item", "get_item"}, LateListing)
      \cup Do({"get_content_lines"}, <<"call", "lines">>)
      \cup Do({"test_path"}, <<"call", "echo", "answer">>)
      \cup Do(FileChanges.change, Change)

PackCommands == Do({"pack_script", "unpack_script"}, LateListing)

ExecCommand == Do({"exec"}, <<"call", "text", "answer">>)

ShortcutCommands ==
    Do({"get_known_folder"}, <<"call", "found", "lines">>)
      \cup Do({"get_shortcut"}, Listing)
      \cup Do({"new_shortcut"}, <<"format", "call", "text">>)

SystemCommands ==
    Do(Inventory.lazy \cup {"get_computer_info"}, LateListing)
      \cup Do({"stop_process", "wait_process"}, Change)
      \cup Do({"restart_computer", "stop_computer"}, <<"check", "call", "echo">>)

WebCommands ==
    Do({"invoke_web_request"}, <<"check", "call", "text">>)
      \cup Do({"invoke_rest_method"}, <<"check", "call", "json">>)
      \cup Do({"download_file"}, <<"call", "text">>)

ServiceChanges == Do(Services.change, Change)

RegistryChanges ==
    Do(Registry.change \ {"set_item_property"}, Change)
      \cup Do({"set_item_property"}, <<"check", "call", "echo">>)

EventLogChange == Do({"clear_event_log"}, Change)

AccountChanges == Do(Users.change \cup Groups.change, Change)

AclChanges == Do(Acls.change, Change)

RegisterCommand == Do({"register_scheduled_task"}, <<"check", "call", "echo">>)

TaskChanges == Do(TaskControl.change, Change)

InfoCommands == Do({"info"}, <<"echo">>) \cup Do({"fail"}, <<"call">>)

LogdemoCommand == Do({"logdemo"}, <<"logdemo", "echo">>)

ConfigCommand == Do({"config"}, <<"config", "echo", "check", "json">>)

\* deploy_configuration reports what it refuses or fails at itself.
DeployCommands ==
    Do({"config_deploy"}, <<"check", "deploy", "echo">>)
      \cup Do({"config_generate_examples"}, <<"deploy", "echo">>)

\* Every command root.py registers.
Registered ==
    AclCommand \cup CimCommand \cup ConnectionsCommand \cup DisksCommand \cup DnsCommand
      \cup EnvironmentCommand \cup EventLogCommand \cup AccountCommands \cup NetCheckCommand
      \cup ProcessesCommand \cup RegistryCommands \cup ScheduledTasksCommand \cup ServicesCommand
      \cup UptimeCommand \cup NetworkingCommands \cup CredentialCommands \cup DotNetCommands
      \cup ElevationCommand \cup WriteTextCommand \cup FilesystemCommands \cup PackCommands
      \cup ExecCommand \cup ShortcutCommands \cup SystemCommands \cup WebCommands \cup ServiceChanges
      \cup RegistryChanges \cup EventLogChange \cup AccountChanges \cup AclChanges \cup RegisterCommand
      \cup TaskChanges \cup InfoCommands \cup LogdemoCommand \cup ConfigCommand \cup DeployCommands

Commands ==
    [c \in {e[1] : e \in Registered} |-> (CHOOSE e \in Registered : e[1] = c)[2]]

Steps(command) == Commands[command]
=============================================================================
