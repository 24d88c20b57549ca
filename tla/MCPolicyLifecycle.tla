------------------------- MODULE MCPolicyLifecycle -------------------------
EXTENDS PolicyLifecycle

CONSTANTS a, b

\* Two employees; b has a position, and neither a department.
MCProfiles ==
    {[user |-> a, subjects |-> [EMPLOYEE |-> {"a"}, POSITION |-> {}, ROLE |-> {"staff"},
                                DEPARTMENT |-> {}]],
     [user |-> b, subjects |-> [EMPLOYEE |-> {"b"}, POSITION |-> {"lead"},
                                ROLE |-> {"staff"}, DEPARTMENT |-> {}]]}

Rule(level, subject, type) == [level |-> level, subject |-> subject, type |-> type]

MCRules == {Rule("COMPANY", "ALL", "INCLUDE"), Rule("POSITION", "lead", "EXCLUDE"),
            Rule("EMPLOYEE", "b", "INCLUDE")}

\* Everyone, the lead by name as well; everyone but the lead.
MCRuleLists == {{r \in MCRules : r.level # "POSITION"},
                {r \in MCRules : r.level # "EMPLOYEE"}}
=============================================================================
