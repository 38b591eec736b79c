----------------------------- MODULE MCStartup -----------------------------
(***************************************************************************)
(* Instances of Startup for TLC: three patches on two assemblies, and two  *)
(* functions that init() does not resolve up front: il2cpp_string_new and  *)
(* il2cpp_type_get_class_or_element_class, which request.cpp:168 needs     *)
(* while it is being installed.                                            *)
(***************************************************************************)
EXTENDS Startup, TLC

CONSTANTS image, typeClass, stringNew, runtimeInvoke, core, json

mcFn == {DomainGet, GetAssemblies, ThreadAttach, image, typeClass, stringNew,
         runtimeInvoke}
mcPreResolved == mcFn \ {typeClass, stringNew}
mcPatches == <<"guard", "http", "request">>
mcHome == "guard" :> json @@ "http" :> core @@ "request" :> core
mcInstalls == "guard" :> {image} @@ "http" :> {image}
              @@ "request" :> {image, typeClass}
mcCalls == "guard" :> {stringNew} @@ "http" :> {stringNew, runtimeInvoke}
           @@ "request" :> {runtimeInvoke}

\* An embedded map may be out of date in any way.
mcAnyNames == SUBSET mcFn
=============================================================================
