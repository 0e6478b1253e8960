---------------------------- MODULE MCRunCommand ----------------------------
(***************************************************************************)
(* RunCommand with small sets of components, applications and              *)
(* configurations for TLC.                                                 *)
(***************************************************************************)
EXTENDS RunCommand

\* every annotation that the linter or the loader tells apart
SmallAnnotations ==
  {Annotation("name", optional, of) : optional \in BOOLEAN, of \in {"int", "str", "bool"}}
    \cup {Annotation(form, optional, of) : form \in {"List", "Dict"},
                                           optional \in BOOLEAN, of \in {"int", "nested"}}
    \cup {Annotation(form, FALSE, "str") : form \in {"nothing", "other", "quoted"}}

PlainParams ==
  {Param("plain", ann, default, TRUE) :
     ann \in SmallAnnotations, default \in {"required", "None", "empty", "value"}}
    \cup {Param("plain", Annotation("name", FALSE, "int"), "required", FALSE)}

OtherParams ==
  {Param("varargs", ann, "required", doc) :
     ann \in {Annotation("name", FALSE, "int"), Annotation("List", FALSE, "int"),
              Annotation("nothing", FALSE, "str")},
     doc \in BOOLEAN}
    \cup {Param("kwonly", Annotation("name", FALSE, "str"), default, TRUE) :
            default \in {"required", "value"}}

Of(params) == Component("top", TRUE, "AppDef", params)

\* one parameter of any kind, or *args and one after it
SmallModuleComponents ==
  {Of(<<p>>) : p \in PlainParams \cup OtherParams}
    \cup {Of(<<p, q>>) : p \in {r \in OtherParams : r.kind = "varargs"},
                         q \in {r \in OtherParams : r.kind = "kwonly"}}
    \cup {Component("async", TRUE, "AppDef", <<>>), Component("top", FALSE, "AppDef", <<>>)}

\* what the linter accepts and what it refuses, in each place of a file
SmallFileComponents ==
  {Component(where, TRUE, returns, <<p>>) :
     where \in {"top", "method", "async", "broken"}, returns \in {"AppDef", "nothing"},
     p \in {Param("plain", ann, "required", TRUE) :
              ann \in {Annotation("name", FALSE, "int"), Annotation("other", FALSE, "str")}}}

Role(name, image, replicas, errorFile) ==
  [name |-> name, image |-> image, entrypoint |-> "main.sh", replicas |-> replicas,
   errorFile |-> errorFile]

Roles ==
  {Role(name, "directory", replicas, errorFile) :
     name \in {"reader", "trainer"}, replicas \in {1, 2}, errorFile \in BOOLEAN}
    \cup {Role("trainer", "relative", 1, FALSE), Role("trainer", "directory", 0, FALSE),
          [Role("trainer", "directory", 1, FALSE) EXCEPT !.entrypoint = ""]}

SmallAppDefs == {<<>>} \cup {<<r>> : r \in Roles} \cup {<<r, s>> : r \in Roles, s \in Roles}

SmallSchedulerArgs ==
  {<<>>} \cup [{"image_type"} -> {<<"docker">>, <<"ftp">>, <<"dir", "docker">>}]
         \cup [{"log_dir", "cluster"} -> {<<"/logs">>}]
=============================================================================
