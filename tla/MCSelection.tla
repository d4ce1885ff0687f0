---------------------------- MODULE MCSelection ----------------------------
(* Instance of Selection for TLC: a broadcast mux with two channels, one of  *)
(* which a cable mux carries too, under the same program number.             *)
EXTENDS Selection, TLC

MCLineup ==
  << {Row(<<2, 1>>, 177000000, Vsb, 3, 48, 49, 49, 52),
      Row(<<2, 1>>, 219000000, Qam, 3, 80, 81, 82, 83)},
     {Row(<<2, 2>>, 177000000, Vsb, 4, 64, 65, 65, 0)} >>

\* In us_bcast, in us_cable by its own number, and an explicit frequency.
MCInputs == {<<"auto", 7>>, <<"us_cable", 23>>, <<"auto", 219000000>>}

\* As many PIDs as there are slots beside the PAT, one more, overlapping ranges
\* that count double, a PAT in the filter, blanks, nothing, and not a range.
MCFilters == {Unset, Blank, <<<<48, 52>>>>, <<<<48, 53>>>>,
              <<<<48, 50>>, <<50, 52>>>>, <<<<0, 1>>, <<1, 2>>>>, <<<<9, 8>>>>}

Symm == Permutations(Conns)

\* The whole mux, a program of both muxes, one of neither, and two whose low 16
\* bits are programs 3 and 4.
MCPrograms == {0, 3, 9, 65539, -65532}
=============================================================================
