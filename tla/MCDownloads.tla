---------------------------- MODULE MCDownloads ----------------------------
(* Small instances of Downloads for TLC. *)
EXTENDS Downloads

\* The files of a revision, in the order of their names.
File(place, name, quant, multipart, chunks) ==
  [name |-> name, place |-> place, quant |-> quant, words |-> {quant},
   multipart |-> multipart, chunks |-> chunks]

\* The second revision drops the preferred quantisation and adds a multi-part
\* file, so "auto" resolves to another file; the third has nothing else.
SmallRepo ==
  <<{File(1, "a", "Q4", FALSE, 2), File(2, "b", "Q8", FALSE, 2)},
    {File(1, "a", "Q4", TRUE, 1), File(2, "b", "Q8", FALSE, 2),
     File(3, "c", "Q8", FALSE, 1)},
    {File(1, "a", "Q4", TRUE, 1)}>>

SmallPreference == <<"Q4", "Q8">>

=============================================================================
