------------------------------- MODULE MCTheme -------------------------------
\* Values for the constants of Theme.
EXTENDS Theme

\* A class that is no theme of the program, and a string that is no class.
MCForeign == {"sepia", "high contrast"}
MCTokens == Themes \cup {"sepia"}
=============================================================================
