------------------------------- MODULE MCCli --------------------------------
(* Every command as it is, and with the two formats that exclude each other; *)
(* one command of each kind with every other flag.                           *)
EXTENDS Cli

\* Two commands with the same steps, whose operations are of the same sort,
\* differ in nothing but their name.
Sort(c) == <<Commands[c], c \in Lazy, c \in Changing, c \in Validating, c \in RefusedOn("darwin"),
             c \in RefusedOn("linux"), c \in {"fail", "get_content_lines"}>>
OfSort(k) == CHOOSE c \in DOMAIN Commands : Sort(c) = k
Every == {OfSort(k) : k \in {Sort(c) : c \in DOMAIN Commands}}

Having(s) == {c \in Every : \E i \in DOMAIN Commands[c] : Commands[c][i] = s}

Kinds ==
    {"get_process", "get_windows_image", "new_shortcut", "exec", "config", "config_deploy", "logdemo"}

MCCalls ==
    [cmd : Every, flags : {{}}]
      \cup [cmd : Having("format"), flags : {{"json", "jsonl"}}]
      \cup [cmd : {"get_process"}, flags : {{"limit", "jsonl"}, {"limit", "json"}, {"limit"}}]
      \cup [cmd : Having("check") \cup (Every \cap Validating), flags : {{"badvalue"}}]
      \cup [cmd : Kinds,
            flags : {{"json"}, {"jsonl"}, {"traceback"}, {"elevate"}, {"elevate", "root"},
                     {"badroot"}, {"badoption"}, {"profile"}, {"worker"}, {"worker", "traceback"}}]
=============================================================================
