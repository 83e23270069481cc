------------------------------ MODULE MCShell -------------------------------
EXTENDS Shell

\* Pipelines of two and three stages with every kind of redirection, a writer
\* whose reader does not read, a line that is not a command, and errors.
MCScripts ==
    {<<<<"echo", "a", "|", "cat">>, <<"cat", "<", "f">>>>,
     <<<<"echo", "|", "cat", "|", "cat">>>>,
     <<<<"echo", ">", "f", "|", "cat">>, <<"#", "echo">>>>,
     <<<<"echo", "|", "echo", "b">>, <<"echo", "b", "c", "|", "cat">>>>,
     <<<<"echo", ">", "f", "<", "f">>, <<"echo", "|", "cat", "b", "c">>>>,
     <<<<"cat", "<", "g", "|", "cat", "<", "f">>>>,
     <<<<"|", "cat">>>>,
     <<<<"echo", ";", "x", "|", "no">>, <<"echo", ">">>, <<>>>>}
=============================================================================
