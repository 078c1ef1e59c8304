--------------------------- MODULE MCCommandRouter ---------------------------
(* The routes of the manager, of one agent and of a plugin that declares again *)
(* a route of each.                                                            *)
EXTENDS CommandRouter

CONSTANTS bot, manager, agent, plugin

TheAttachments ==
  <<[id |-> Root, context |-> manager, routes |-> {"help", "list"}],
    [id |-> Root, context |-> plugin, routes |-> {"list", "dwn"}],
    [id |-> bot, context |-> agent, routes |-> {"ping"}],
    [id |-> bot, context |-> plugin, routes |-> {"ping"}]>>

TheHelp == [name |-> "help", from |-> Default]

TheCommands == {TheHelp, [name |-> "ping", from |-> bot], [name |-> "ping", from |-> Root]}

=============================================================================
