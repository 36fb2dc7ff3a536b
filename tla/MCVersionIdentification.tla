---------------------- MODULE MCVersionIdentification ----------------------
(***************************************************************************)
(* Listings of signature files: one to six versions of a level, files in   *)
(* several directories, of several levels, and with names that say less.   *)
(***************************************************************************)
EXTENDS VersionIdentification

File(v, opt) == v \o <<"-O", opt, ".sig">>

\* 1.8, 1.9, 1.10, ...: in the order of numbers, not of texts.
Release(k) == <<"1", ".">> \o <<<<"8">>, <<"9">>, <<"1", "0">>, <<"1", "1">>, <<"1", "2">>, <<"1", "3">>>>[k]
Releases3(k) == {File(Release(j), "3") : j \in 1..k}

Search(f, o) == [files |-> f, opt |-> <<o>>]
MCSearches ==
  {Search(Releases3(k), "3") : k \in 1..6} \cup {Search(Releases3(k), "0") : k \in 1..2}
  \cup {Search({}, "3"), Search({<<".sig">>}, "3"), Search({File(<<"1", ".", "8">>, "s"), <<"1", ".", "8", ".sig">>}, "s")}
  \cup {Search({<<"d", "/">> \o File(<<"1", ".", "8">>, "3"), <<"e", "\\">> \o File(<<"1", ".", "8">>, "3"),
                File(<<"1", ".", "9">>, "3"), File(<<"2">>, "2")}, o) : o \in {"3", "2", "1"}}
  \cup {Search({File(<<"1", ".", "8">>, "2"), File(<<"1", ".", "9">>, "2"), File(<<"2">>, "1"), File(<<"n", "x">>, "1")}, o) :
           o \in {"3", "2"}}
  \cup {Search({File(<<"1", ".", "8", ".">>, "3"), File(<<"1", ".", "0", "8">>, "3"), File(<<"1", ".", "8", ".", "1">>, "3"),
                <<"1", ".", "8", "x", "-O", "2", "-O", "3">>}, "3")}
=============================================================================
