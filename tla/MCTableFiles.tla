----------------------------- MODULE MCTableFiles -----------------------------
(* The files of a database for TLC, one kind in a behaviour and each with its  *)
(* own bounds: a heap file, or the catalog and the files it names.             *)
EXTENDS MCHeapFile, MCCatalogFiles

VARIABLE part

FilesInit == part \in {"heap", "catalog"} /\ Init /\ CatalogInit

HeapStep == part = "heap" /\ Next /\ UNCHANGED <<part, catalogVars>>
CatalogStep == part = "catalog" /\ CatalogNext /\ UNCHANGED <<part, vars>>

FilesNext == HeapStep \/ CatalogStep

FilesSpec == FilesInit /\ [][FilesNext]_<<part, vars, catalogVars>>

Symmetries == Keys \cup DataRows

=============================================================================
