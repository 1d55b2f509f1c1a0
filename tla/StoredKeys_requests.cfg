\* Two requests on two keys, one of which its own storage plugin can use.
SPECIFICATION Spec
CONSTANTS
    r1 = r1
    r2 = r2
    inPlugin = inPlugin
    elsewhere = elsewhere
    Requests = {r1, r2}
    Names = {inPlugin, elsewhere}
    Old = Old
    Null = Null
    OpsOf <- MCOpsOf
    PluginOf <- MCPluginOf
INVARIANTS TypeOK OneDriver OwnArguments  StoredIsKept SecretsStay
\* The clients make two requests: the daemon comes to rest.
CHECK_DEADLOCK FALSE
