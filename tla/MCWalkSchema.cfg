CONSTANTS
    Indices <- MCIndices
    OtherKeys <- MCOtherKeys
    Values <- MCValues
    Openings <- MCNestedOpenings
    Messages <- MCMessages
    Replies <- MCReplies
    MaxMessages = 3
SPECIFICATION Spec
INVARIANT
    DescriptionsAreMasked
