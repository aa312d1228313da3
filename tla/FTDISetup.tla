----------------------------- MODULE FTDISetup -----------------------------
(***************************************************************************)
(* FTDISetup of src/src/ftdisetup.cpp: AXISetup's list and file again, for *)
(* items [id, div, pedge, freq].  Its loops are those of AXISetup, so its  *)
(* definitions are too; it has no deletion, and it does not look at        *)
(* whether the list is empty, which main() can make it (XVCServer).        *)
(***************************************************************************)
EXTENDS AXISetup

FTDIAddItem(list, item) == AddItem(list, item)
FTDIFinalizeKept(list) == list          \* fault: the ids of the sweep stay
FTDIFinalize(list) == Finalize(list)
FTDISaveFile(list) == SaveFile(list)
FTDILoadFile(file) == LoadFile(file)
FTDIItemById(list, id) == ItemById(list, id)
FTDIItemByFrequency(list, freq) == ItemByFrequency(list, freq)
FTDIItemByMaxFrequency(list) == ItemByMaxFrequency(list)
=============================================================================
