-------------------------- MODULE MCCatalogScreen --------------------------
EXTENDS CatalogScreen

\* A port with an application, a pack of files and a plugin, which a newer catalog may
\* replace by a tool without files; a game for the PSP with two packs to choose from.
MCLists == [home |-> {<<"port">>, <<"tool">>}, psp |-> {<<"game">>, <<"tool">>}]
MCOptions == [port |-> [app |-> 1, game |-> 1, data |-> 0],
              tool |-> [app |-> 1, game |-> 0, data |-> 0],
              game |-> [app |-> 0, game |-> 0, data |-> 2]]
MCPlugins == [port |-> 1, tool |-> 0, game |-> 0]
=============================================================================
