-------------------------- MODULE MCConfiguration --------------------------
EXTENDS Configuration

MCDefault == [system_prefix_tokens |-> "15000", preflight |-> "on", user_arrival |-> "burst",
              context_profile |-> ""]
MCKind == [system_prefix_tokens |-> "number", preflight |-> "flag", user_arrival |-> "text",
           context_profile |-> "text"]
MCTexts == [system_prefix_tokens |-> {"100", "300"}, preflight |-> {"on", "off"},
            user_arrival |-> {"steady:1", Garbage}, context_profile |-> {"short"}]
MCProfiles == [short |-> [system_prefix_tokens |-> "14000"]]

Option(field, value, spelledOut) == [field |-> field, value |-> value, spelledOut |-> spelledOut]
MCLines ==
    {<<>>, <<Option("system_prefix_tokens", "200", TRUE)>>,
     <<Option("user_arrival", "burst", TRUE), Option("preflight", "off", FALSE)>>}
=============================================================================
