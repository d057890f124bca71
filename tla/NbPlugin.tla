------------------------------ MODULE NbPlugin ------------------------------
(***************************************************************************)
(* nb_plugin.c: the shared object of a driver is loaded and unloaded. A    *)
(* caller is a module that EXTENDS this one; it calls with CallLoad or     *)
(* CallUnload and goes on when pluginPc is "idle"; loaded is then the      *)
(* result, NULL or not.                                                    *)
(***************************************************************************)

VARIABLES
  pluginPc,  \* where nb_plugin_load or nb_plugin_unload is
  plugin,    \* struct nb_plugin is allocated
  handle,    \* the shared object is mapped
  loaded     \* nb_plugin_load returned a plugin, not yet unloaded

pluginVars == <<pluginPc, plugin, handle, loaded>>

PluginInit ==
  /\ pluginPc = "idle"
  /\ plugin = FALSE /\ handle = FALSE /\ loaded = FALSE

PluginReturned == pluginPc = "idle"

CallLoad == pluginPc' = "malloc" /\ UNCHANGED <<plugin, handle, loaded>>

CallUnload ==
  /\ pluginPc' = "dlclose"
  /\ loaded' = FALSE
  /\ UNCHANGED <<plugin, handle>>

MallocPlugin ==
  /\ pluginPc = "malloc"
  /\ \/ pluginPc' = "dlopen" /\ plugin' = TRUE
     \/ pluginPc' = "idle" /\ UNCHANGED plugin
  /\ UNCHANGED <<handle, loaded>>

Dlopen ==
  /\ pluginPc = "dlopen"
  /\ \/ pluginPc' = "dlsym" /\ handle' = TRUE
     \/ pluginPc' = "free" /\ UNCHANGED handle
  /\ UNCHANGED <<plugin, loaded>>

Dlsym ==
  /\ pluginPc = "dlsym"
  /\ pluginPc' \in {"check", "dlclose"}
  /\ UNCHANGED <<plugin, handle, loaded>>

\* The interface must carry the name that was asked for.
CheckName ==
  /\ pluginPc = "check"
  /\ \/ pluginPc' = "idle" /\ loaded' = TRUE
     \/ pluginPc' = "dlclose" /\ UNCHANGED loaded
  /\ UNCHANGED <<plugin, handle>>

\* error_3 and error_2 of the load; the two lines of the unload.
Dlclose ==
  /\ pluginPc = "dlclose"
  /\ pluginPc' = "free"
  /\ handle' = FALSE
  /\ UNCHANGED <<plugin, loaded>>

FreePlugin ==
  /\ pluginPc = "free"
  /\ pluginPc' = "idle"
  /\ plugin' = FALSE
  /\ UNCHANGED <<handle, loaded>>

PluginStep ==
  MallocPlugin \/ Dlopen \/ Dlsym \/ CheckName \/ Dlclose \/ FreePlugin

PluginTypeOK ==
  /\ pluginPc \in {"idle", "malloc", "dlopen", "dlsym", "check", "dlclose", "free"}
  /\ plugin \in BOOLEAN /\ handle \in BOOLEAN /\ loaded \in BOOLEAN
=============================================================================
