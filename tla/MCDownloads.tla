---------------------------- MODULE MCDownloads ----------------------------
(***************************************************************************)
(* Two quants of one repository: g1 with its weights b and the projector m,*)
(* g2 with the same projector.                                             *)
(***************************************************************************)
EXTENDS Downloads, TLC

CONSTANTS g1, g2, b, m, c1

MCFilesOf == (g1 :> <<b, m>>) @@ (g2 :> <<m>>)

\* Either may stand there whole in size and wrong in content, m cut short too.
MCFound == (b :> {NoFile, <<"x", "x">>}) @@ (m :> {NoFile, <<"x">>, <<"x", "x">>})

\* m, which both groups want, stands there whole in size and wrong in content.
MCFoundTwice == (b :> {NoFile}) @@ (m :> {<<"x", "x">>})

=============================================================================
