----------------------------- MODULE MCRecordPages -----------------------------
(* An instance of RecordPages for TLC: four RRsets, the last two at one name, so *)
(* that a page of three ends between them.                                       *)
EXTENDS RecordPages

SomeKeys  == 1 .. 4
SomeNames == <<1, 2, 3, 3>>
AllPlain  == 2 .. 4

\* As for "1", "2" and "_dmarc", whose underscore is after the digits for the server and
\* before them for the browser; the last two RRsets tie.
SomeRanks == <<2, 3, 1, 1>>

\* Searches of either find three RRsets by their names and two by their data, one by both;
\* only the search of either in all zones has no text, and finds all.
FoundByName == {1, 2, 4}
FoundByData == {2, 3}
WithText    == {"search", "global", "either"}

SomeZones == {{2}, {1, 2, 4}, 1 .. 4}
================================================================================
