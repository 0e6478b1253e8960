----------------------------- MODULE MCKfpStep ------------------------------
(***************************************************************************)
(* KfpStep with components of up to two fields and images of up to two     *)
(* plugins for TLC.                                                        *)
(***************************************************************************)
EXTENDS KfpStep

Fields(group) ==
  {Field(group, name, type, optional) :
     name \in {"x", "y"}, type \in {"int", "str", "json"}, optional \in BOOLEAN}

\* an input and an output, which may have one name, or two outputs
TwoFields ==
  {[fields |-> <<f, g>>, copies |-> <<>>] :
     f \in {h \in Fields("inputs") \cup Fields("outputs") : h.name = "x"},
     g \in Fields("outputs")}

\* Copy, and URLs that have a provider, or may have one, or are none
Copy(schemes) ==
  [fields |-> <<Field("inputs", "x", "str", FALSE), Field("outputs", "y", "str", FALSE)>>,
   copies |-> schemes]

SmallComponents ==
  TwoFields \cup {Copy(schemes) : schemes \in {"file", "s3", "none"} \X {"file", "s3", "none"}}

Plugin(name, scheme) == [name |-> name, scheme |-> scheme]

\* two packages may provide one scheme, or that of the FileProvider
SmallPlugins ==
  {<<>>, <<Plugin("torchx.aws.s3", "s3")>>,
   <<Plugin("torchx.aws.s3", "s3"), Plugin("mirror", "s3")>>,
   <<Plugin("mirror", "file")>>, <<Plugin("mirror", "gs"), Plugin("torchx.aws.s3", "s3")>>}
=============================================================================
