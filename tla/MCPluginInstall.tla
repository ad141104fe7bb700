--------------------------- MODULE MCPluginInstall ---------------------------
(* Small instances of PluginInstall for TLC. *)
EXTENDS PluginInstall, TLC

CONSTANTS a, b, f, kernel, main

\* Two plugins of taiHEN, one of them in the first of two sections, and one
\* that is only a file.
Sections == (a :> kernel) @@ (b :> main) @@ (f :> NoSection)

Header(s) == <<"header", s>>
Line(q) == <<"line", q>>
Comment(q) == <<"comment", q>>

\* None; both sections with lines; one section, a line commented out; and the
\* sections in the other order, one of them twice.
TaiConfigs ==
    { NoText,
      Whole(<<Header(kernel), Line(a), Header(main), Line(b)>>),
      Whole(<<Header(kernel), Comment(a)>>),
      Whole(<<Header(main), Header(kernel), Header(main), Line(b)>>) }
=============================================================================
