---------------------------- MODULE MCPluginCache ----------------------------
EXTENDS PluginCache

CONSTANTS cors, keyauth, route, consumer, c1, c2

MCNames == {cors, keyauth}
MCEmptyProps == {keyauth}
MCTypes == {route, consumer}
MCCallers == {c1}

====
