------------------------------- MODULE Facade -------------------------------
(***************************************************************************)
(* The operations of pwshpy's facade, class Ps: what a call does at once   *)
(* and what it leaves to the reader of its answer.                         *)
(*                                                                         *)
(*   lazy    the port returns an iterator, wrapped in a Pipeline: nothing  *)
(*           is read, and nothing can fail, before the first pull;         *)
(*   value   the port is asked now and its answer returned;                *)
(*   change  the port changes the machine now.                             *)
(***************************************************************************)
EXTENDS Naturals

Ops(lazy, value, change) == [lazy |-> lazy, value |-> value, change |-> change]

SystemReads ==
    Ops({"get_process", "get_net_tcp_connection", "get_net_adapter",
         "get_net_ip_address", "get_net_udp_endpoint", "get_volume"},
        {"get_uptime"}, {})

NameAndEnvironmentReads == Ops({"resolve_dns_name", "environment"}, {"test_connection"}, {})

Registry ==
    Ops({"get_item_property", "registry_keys"}, {},
        {"set_item_property", "remove_item_property", "new_registry_key", "remove_registry_key"})

Services ==
    Ops({"get_service"}, {},
        {"start_service", "stop_service", "restart_service", "set_service"})

EventsAndCim == Ops({"get_win_event", "get_cim_instance"}, {}, {"clear_event_log"})

TaskRegistration == Ops({"get_scheduled_task"}, {}, {"register_scheduled_task"})

TaskControl ==
    Ops({}, {}, {"unregister_scheduled_task", "enable_scheduled_task", "disable_scheduled_task",
                 "start_scheduled_task", "stop_scheduled_task"})

Users ==
    Ops({"get_local_user", "get_local_group"}, {},
        {"new_local_user", "remove_local_user", "enable_local_user"})

Groups ==
    Ops({}, {}, {"disable_local_user", "new_local_group", "remove_local_group",
                 "add_local_group_member", "remove_local_group_member"})

Acls == Ops({"get_acl"}, {}, {"add_acl_ace", "remove_acl_ace", "set_owner"})

\* A hosted runspace runs what it is given: it may change anything.
DotNet == Ops({}, {"get_command"}, {"run", "cmdlet"})

\* Each is ps.cmdlet with a cmdlet's name.
CmdletWrappers ==
    Ops({}, {}, {"get_ad_user", "get_ad_group", "get_ad_computer", "get_mailbox",
                 "get_az_vm", "get_az_resource_group"})

Programs == Ops({}, {}, {"exec", "pack_script", "unpack_script"})

Writers == Ops({}, {}, {"write_text", "write_text_stream", "write_records"})

\* get_content_lines opens the file at once and reads it as it is pulled.
FileReads ==
    Ops({"get_child_item", "get_content_lines"}, {"get_item", "get_content", "test_path"}, {})

FileChanges == Ops({}, {}, {"new_item", "copy_item", "move_item", "remove_item"})

Web == Ops({}, {"invoke_web_request", "invoke_rest_method"}, {"download_file"})

ProcessControl ==
    Ops({}, {"wait_process"}, {"stop_process", "restart_computer", "stop_computer"})

Inventory ==
    Ops({"get_hotfix", "get_windows_image", "get_windows_update"},
        {"get_computer_info", "get_current_identity"}, {})

Shell == Ops({}, {"get_known_folder", "get_shortcut"}, {"new_shortcut"})

Credentials ==
    Ops({}, {"get_credential", "load_credential"}, {"save_credential", "delete_credential"})

Privileges == Ops({}, {"is_elevated", "require_elevation"}, {"elevate"})

Families ==
    {SystemReads, NameAndEnvironmentReads, Registry, Services, EventsAndCim, TaskRegistration,
     TaskControl, Users, Groups, Acls, DotNet, CmdletWrappers, Programs, Writers, FileReads,
     FileChanges, Web, ProcessControl, Inventory, Shell, Credentials, Privileges}

Lazy == UNION {f.lazy : f \in Families}

Changing == UNION {f.change : f \in Families}

\* What has only a Windows port is refused elsewhere, and ACLs on macOS,
\* before the port is reached.
RefusedOn(platform) ==
    (IF platform = "win32" THEN {} ELSE {"new_shortcut", "get_shortcut"})
      \cup (IF platform = "darwin" THEN Acls.lazy \cup Acls.change ELSE {})

\* Operations that check an argument themselves, when called: a wait limit,
\* an image index, a folder's name, a task's settings, a shortcut's fields.
Validating ==
    {"exec", "get_windows_update", "get_windows_image", "get_known_folder",
     "register_scheduled_task", "new_shortcut"}
=============================================================================
