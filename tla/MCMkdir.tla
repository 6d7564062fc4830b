------------------------------- MODULE MCMkdir -------------------------------
EXTENDS Mkdir

\* a/b/f, a/b/c/ and //a//f: a common parent, a pathname that ends in a slash,
\* and one with slashes to skip.
MCPaths == {<<"a", "/", "b", "/", "f">>,
            <<"a", "/", "b", "/", "c", "/">>,
            <<"/", "/", "a", "/", "/", "f">>,
            NoPath}

\* Every file system of these directories and files, with or without
\* permission to create in the working directory or in a.
Universe == {<<"a">>, <<"a", "/", "b">>, <<"a", "/", "b", "/", "c">>, <<"/", "a">>}

MCDisks ==
  {s \in [dirs : SUBSET Universe, files : SUBSET Universe,
           locked : {{}, {<< >>}, {<<"a">>}}] :
     /\ s.dirs \cap s.files = {}
     /\ \A q \in s.dirs \cup s.files : IsDir(s, Parent(q))}
=============================================================================
