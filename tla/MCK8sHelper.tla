---------------------------- MODULE MCK8sHelper ----------------------------
EXTENDS K8sHelper

\* get_data takes the way of get, create_all that of create.
McKinds == {"exist", "get", "create", "update", "add_label", "delete",
            "delete_lifecycle", "change_node"}

=============================================================================
