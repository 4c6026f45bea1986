----------------------------- MODULE MCRenderGate -----------------------------
\* RenderGate on small instances, for TLC.
EXTENDS RenderGate, TLC

CONSTANTS p1, p2, p3

\* A configuration is known by the errors validation reports for it.
Contents == {{}, {"approved"}, {"security"}, {"structure", "security"}, {"yaml"}}
FewContents == {{}, {"approved"}, {"security"}}
ErrorsOf == [c \in Contents |-> c]
FewErrorsOf == [c \in FewContents |-> c]

OneOfEach == p1 :> "render" @@ p2 :> "force" @@ p3 :> "ci"
Two == p1 :> "render" @@ p2 :> "render"
===============================================================================
