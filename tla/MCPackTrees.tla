---------------------------- MODULE MCPackTrees -----------------------------
(* Trees of Python files to pack: a package, or a directory without          *)
(* __init__.py, with two modules, and a module beside it.                    *)
EXTENDS Naturals, Sequences

PyFile(name, init) == [name |-> name, init |-> init]
Import(module) == [level |-> 0, module |-> module, names |-> {}]
From(level, module, name) == [level |-> level, module |-> module, names |-> {name}]

MCEntry == PyFile(<<"main">>, FALSE)
Package == PyFile(<<"p">>, TRUE)
Twin    == PyFile(<<"p">>, FALSE)
InnerQ  == PyFile(<<"p", "q">>, FALSE)
InnerR  == PyFile(<<"p", "r">>, FALSE)
Beside  == PyFile(<<"h">>, FALSE)

Having(optional, main, q, r) ==
    [f \in {MCEntry, InnerQ, InnerR} \cup optional |->
        CASE f = MCEntry -> main [] f = InnerQ -> q [] f = InnerR -> r
          [] OTHER -> {Import(<<"ext">>)}]

MCTrees ==
    {Having(optional, main, q, r) :
        optional \in {{Package, Beside}, {Beside}, {Package}},
        main \in {{Import(<<"p", "q">>), Import(<<"os">>)}, {From(0, <<"p">>, "q")}},
        q \in {{From(1, <<>>, "r")}, {From(1, <<"r">>, "x"), Import(<<"main">>)},
               {From(3, <<>>, "h")}},
        r \in {{Import(<<"h">>)}, {From(2, <<>>, "h")}}}

\* p.py beside p/__init__.py.
MCTwins == {Having({Package, Twin}, {Import(<<"p", "q">>)}, {}, {})}

\* Another import, and what does not parse.
MCEdits == {{From(0, <<"p">>, "r")}, {Import(<<>>)}}
=============================================================================
