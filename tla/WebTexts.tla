------------------------------ MODULE WebTexts ------------------------------
(***************************************************************************)
(* What the library does to texts: the fields of a request and the filling  *)
(* of a page.  A behaviour is one or the other: they share nothing.         *)
(***************************************************************************)
EXTENDS HttpFields, Template

VARIABLE part   \* "fields" or "page"

vars == <<part, fieldVars, templateVars>>

NoFields ==
    /\ stage = "unused" /\ form = Empty /\ set = Empty /\ foreign = NoMap
    /\ jar = NoMap /\ path = Empty /\ bodyData = Empty /\ cookieHeader = Empty
    /\ parameters = NoMap /\ cookies = NoMap

NoPage ==
    /\ source = <<>> /\ counts = NoMap /\ truths = NoMap /\ values = NoMap /\ page = <<>>
    /\ todo = {} /\ call = NoCall /\ search = <<>> /\ start = 1

Init ==
    \/ part = "fields" /\ FieldsInit /\ NoPage
    \/ part = "page" /\ NoFields /\ TemplateInit

Next ==
    \/ part = "fields" /\ FieldsNext /\ UNCHANGED <<part, templateVars>>
    \/ part = "page" /\ TemplateNext /\ UNCHANGED <<part, fieldVars>>

\* The thread that fills a page runs, and the controller makes all its calls.
Spec == Init /\ [][Next]_vars /\ WF_templateVars(TemplateNext)

=============================================================================
