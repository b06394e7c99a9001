--------------------------- MODULE MCDesktopWatch ---------------------------
\* DesktopWatch on small instances: two folders with three files between them,
\* one in a sub-folder and one below the depth limit, and one folder of two files.
EXTENDS DesktopWatch

TwoFolders == {<<"a", "stellar">>, <<"a", "nested">>, <<"b", "deep">>}
NestedFiles == {<<"a", "nested">>, <<"b", "deep">>}
DeepFile == {<<"b", "deep">>}

OneFolder == {"a"} \X {"one", "two"}
=============================================================================
