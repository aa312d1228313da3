------------------------------ MODULE AXISetup ------------------------------
(***************************************************************************)
(* AXISetup of src/src/axisetup.cpp: the list of calibration items, the    *)
(* file it is saved to, and the choice of an item.  An item is a record    *)
(* [id, div, del, freq, valid]; the list is a sequence, first item first.  *)
(***************************************************************************)
EXTENDS Integers, Sequences, SequencesExt

NoItem == [id |-> -1, div |-> 0, del |-> 0, freq |-> 0, valid |-> 0]    \* nullptr

Dist(x, y) == IF x > y THEN x - y ELSE y - x

AddItem(list, item) == Append(list, item)

(* Only the first item with the id goes. *)
DelItemById(list, id) == RemoveFirstMatch(list, LAMBDA item : item.id = id)

(* The items are renumbered, the last one 0. *)
Finalize(list) == [i \in DOMAIN list |-> [list[i] EXCEPT !.id = Len(list) - i]]

ItemById(list, id) ==
    IF \E i \in DOMAIN list : list[i].id = id
    THEN list[SelectInSeq(list, LAMBDA item : item.id = id)]
    ELSE NoItem

(* The loops over the list that keep the best index so far.  The one for   *)
(* the maximum frequency begins at 0 in the code, and at the first item    *)
(* here, which is the same for frequencies that are not negative.          *)
ItemByFrequencyFrozen(list, freq) ==    \* fault: delta keeps its first value
    IF list = <<>> THEN NoItem
    ELSE LET Closer(best, i) ==
                IF Dist(freq, list[1].freq) > Dist(freq, list[i].freq) THEN i ELSE best
         IN  list[FoldLeftDomain(Closer, 1, list)]

ItemByFrequency(list, freq) ==
    IF list = <<>> THEN NoItem
    ELSE LET Closer(best, i) ==
                IF Dist(freq, list[best].freq) > Dist(freq, list[i].freq) THEN i ELSE best
         IN  list[FoldLeftDomain(Closer, 1, list)]

ItemByMaxFrequency(list) ==
    IF list = <<>> THEN NoItem
    ELSE LET Faster(best, i) == IF list[i].freq > list[best].freq THEN i ELSE best
         IN  list[FoldLeftDomain(Faster, 1, list)]

-----------------------------------------------------------------------------
(* The file, a sequence of lines.  A line is what sscanf() finds in it: an *)
(* item, or nothing in the comment line at the top.                        *)

Comment == <<>>

SaveFile(list) == <<Comment>> \o [i \in DOMAIN list |-> <<list[i]>>]

(* The loop asks feof() before it reads and does not look at what fgets()  *)
(* returns: once more after the last line it finds that line still in its  *)
(* buffer, and takes it again.                                             *)
LoadFileShort(file) == FlattenSeq(Front(file))      \* fault: stops a line early
LoadFile(file) == FlattenSeq(Append(file, Last(file)))
=============================================================================
