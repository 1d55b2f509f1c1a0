---------------------------- MODULE MCStoredKeys ----------------------------
\* Two keys, one in the plugin which uses it too and one in sqlite; two
\* requests, the first of any kind.
EXTENDS StoredKeys, TLC

CONSTANTS r1, r2, inPlugin, elsewhere

MCPluginOf == (inPlugin :> "sqlcipher") @@ (elsewhere :> "sqlite")
MCOpsOf ==
    (r1 :> Ops) @@
    (r2 :> {"generateStoredKey", "deleteStoredKey"})
=============================================================================
