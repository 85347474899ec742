------------------------- MODULE MCBackendGateway -------------------------
(* One native backend and two plugins: one with an id of its own, one that  *)
(* claims the same id, as two entries for one library do.                   *)
EXTENDS BackendGateway

CONSTANTS null, plugin, twin, coreNull, pluginId, t1, t2

MCNative == {null}
MCPlugins == {plugin, twin}
MCIds == {coreNull, pluginId}
MCIdOf == [b \in {null, plugin, twin} |-> IF b = null THEN coreNull ELSE pluginId]
MCPings == {null, plugin}
MCThreads == {t1, t2}
MCTrusted == {coreNull}

============================================================================
